---------------------------- MODULE Spec2Model ----------------------------
(***************************************************************************)
(* Behavioural-event core of mat2h5: signed-velocity kinematics, the       *)
(* reversal and turn detectors, LED stimulus windows and the per-file      *)
(* analysis loop of engineer_dataset_from_h5.py / engineer_data.py.        *)
(*                                                                         *)
(* Conventions.  Array indices in records (start_idx, end_idx, idx) are    *)
(* Python's 0-based indices; At(s, k) reads element k of a 0-based array.  *)
(* Times are whole seconds.  Python's None is the value None (-1), which   *)
(* no index and no timestamp of the model takes.  A function that can      *)
(* raise returns a record whose field exc is "none" or the exception.      *)
(***************************************************************************)
EXTENDS Integers, Sequences, FiniteSets, TLC

VARIABLES rev, turn, win, h5, kin, rate

vars == <<rev, turn, win, h5, kin, rate>>

-----------------------------------------------------------------------------
(* Bounds of the model.                                                    *)

\* longest timestamp / signed-velocity / LED series handed to a detector
MaxLen == 4
\* largest timestamp (seconds)
MaxTime == 4
\* longest heading series handed to the turn detector
MaxHeadLen == 6

-----------------------------------------------------------------------------
(* Python / numpy helpers.                                                 *)

None == -1

At(s, k) == s[k + 1]

Abs(x) == IF x < 0 THEN -x ELSE x

RECURSIVE GCD(_, _)
GCD(a, b) == IF b = 0 THEN a ELSE GCD(b, a % b)

\* an exact fraction n/d (d > 0) in lowest terms: the value of a float mean
Rat(n, d) ==
    LET g == GCD(Abs(n), d)
    IN  [num |-> IF n < 0 THEN -(Abs(n) \div g) ELSE n \div g, den |-> d \div g]

RECURSIVE Sum(_)
Sum(s) == IF s = <<>> THEN 0 ELSE Head(s) + Sum(Tail(s))

\* s[a:b] of a 0-based array, 0 <= a <= b <= len(s)
Slice(s, a, b) == SubSeq(s, a + 1, b)

\* the mutant of AbsMean that takes the first sample for the mean
AbsFirst(s) == Rat(Abs(s[1]), 1)

\* float(np.abs(np.mean(x))) of a non-empty array
AbsMean(s) == Rat(Abs(Sum(s)), Len(s))

\* the non-decreasing series of length n over 0..MaxTime
NonDecreasing(n) ==
    {s \in [1..n -> 0..MaxTime] : \A k \in 1..(n - 1) : s[k] <= s[k + 1]}

-----------------------------------------------------------------------------
(* detect_reversals: the scan over the signed-velocity series.             *)

RevInit ==
    [in_rev |-> FALSE, start_idx |-> None, start_time |-> None,
     reversals |-> <<>>, exc |-> "none"]

\* neg and not in_rev: a reversal starts at sample i
RevEnter(st, i, times) ==
    IF i >= Len(times)
    THEN [st EXCEPT !.exc = "IndexError"]
    ELSE [st EXCEPT !.in_rev = TRUE, !.start_idx = i, !.start_time = At(times, i)]

\* the mutant of RevExit that forgets to leave the reversal: in_rev and
\* start_idx survive the closing sample
RevExitKeepsState(st, i, times, speedrunvel, min_duration) ==
    IF i >= Len(times)
    THEN [st EXCEPT !.exc = "IndexError"]
    ELSE LET dur == At(times, i) - st.start_time
         IN  [st EXCEPT !.reversals =
                 IF dur >= min_duration
                 THEN Append(@, [start_idx |-> st.start_idx, end_idx |-> i - 1,
                                 start_time |-> st.start_time,
                                 end_time |-> At(times, i - 1),
                                 duration |-> dur,
                                 mean_speed |->
                                     AbsMean(Slice(speedrunvel, st.start_idx, i))])
                 ELSE @]

\* not neg and in_rev: sample i closes the reversal
RevExit(st, i, times, speedrunvel, min_duration) ==
    IF st.start_idx = None
    THEN [st EXCEPT !.in_rev = FALSE, !.start_idx = None]
    ELSE IF i >= Len(times)
    THEN [st EXCEPT !.exc = "IndexError"]
    ELSE LET dur == At(times, i) - st.start_time
         IN  [st EXCEPT !.in_rev = FALSE,
                        !.start_idx = None,
                        !.reversals =
                 IF dur >= min_duration
                 THEN Append(@, [start_idx |-> st.start_idx, end_idx |-> i - 1,
                                 start_time |-> st.start_time,
                                 end_time |-> At(times, i - 1),
                                 duration |-> dur,
                                 mean_speed |->
                                     AbsMean(Slice(speedrunvel, st.start_idx, i))])
                 ELSE @]

\* the mutant of RevIsNegative that lets a sample of exactly 0 count as reverse
RevIsNegativeOrZero(val) == val <= 0

\* neg = val < 0
RevIsNegative(val) == val < 0

\* one iteration of the for loop
RevLoopBody(st, i, times, speedrunvel, min_duration) ==
    LET neg == RevIsNegative(At(speedrunvel, i))
    IN  IF st.exc # "none" THEN st
        ELSE IF neg /\ ~st.in_rev THEN RevEnter(st, i, times)
        ELSE IF ~neg /\ st.in_rev
             THEN RevExit(st, i, times, speedrunvel, min_duration)
        ELSE st

RECURSIVE RevScan(_, _, _, _, _)
RevScan(st, i, times, speedrunvel, min_duration) ==
    IF i >= Len(speedrunvel) THEN st
    ELSE RevScan(RevLoopBody(st, i, times, speedrunvel, min_duration),
                 i + 1, times, speedrunvel, min_duration)

\* the mutant of RevTail that emits the run open at the end of the series
\* without testing its duration
RevTailNoThreshold(st, times, speedrunvel, min_duration) ==
    IF st.exc # "none" \/ ~(st.in_rev /\ st.start_idx # None) THEN st
    ELSE LET dur == At(times, Len(times) - 1) - st.start_time
         IN  [st EXCEPT !.reversals =
                 Append(@, [start_idx |-> st.start_idx,
                            end_idx |-> Len(speedrunvel) - 1,
                            start_time |-> st.start_time,
                            end_time |-> At(times, Len(times) - 1),
                            duration |-> dur,
                            mean_speed |->
                                AbsMean(Slice(speedrunvel, st.start_idx,
                                              Len(speedrunvel)))])]

\* the mutant of RevTail that returns without looking at the open reversal
RevTailDropsOpenRun(st, times, speedrunvel, min_duration) == st

\* after the loop: a reversal still open is closed with the final timestamp
RevTail(st, times, speedrunvel, min_duration) ==
    IF st.exc # "none" \/ ~(st.in_rev /\ st.start_idx # None) THEN st
    ELSE LET dur == At(times, Len(times) - 1) - st.start_time
         IN  [st EXCEPT !.reversals =
                 IF dur >= min_duration
                 THEN Append(@, [start_idx |-> st.start_idx,
                                 end_idx |-> Len(speedrunvel) - 1,
                                 start_time |-> st.start_time,
                                 end_time |-> At(times, Len(times) - 1),
                                 duration |-> dur,
                                 mean_speed |->
                                     AbsMean(Slice(speedrunvel, st.start_idx,
                                                   Len(speedrunvel)))])
                 ELSE @]

\* detect_reversals(times, speedrunvel, min_duration)
DetectReversals(times, speedrunvel, min_duration) ==
    IF Len(times) = 0 \/ Len(speedrunvel) = 0
    THEN [exc |-> "none", reversals |-> <<>>]
    ELSE LET st == RevTail(RevScan(RevInit, 0, times, speedrunvel, min_duration),
                           times, speedrunvel, min_duration)
         IN  [exc |-> st.exc, reversals |-> st.reversals]

-----------------------------------------------------------------------------
(* detect_turn_events: heading angles, unwrapping and the greedy scan.     *)
(* A heading is the integer vector head - mid; its unit vector has the     *)
(* same atan2.  Angles are whole degrees (the model's headings lie on the  *)
(* eight compass directions).                                              *)

\* np.rad2deg(np.arctan2(y, x)) for v = <<x, y>>, in (-180, 180]
Atan2Deg(v) ==
    LET x == v[1]
        y == v[2]
    IN  IF y = 0 THEN (IF x < 0 THEN 180 ELSE 0)
        ELSE IF x = 0 THEN (IF y > 0 THEN 90 ELSE -90)
        ELSE IF x > 0 THEN (IF y > 0 THEN 45 ELSE -45)
        ELSE (IF y > 0 THEN 135 ELSE -135)

\* one difference of np.unwrap's output: a jump of 180 degrees or more is
\* taken modulo 360 into [-180, 180]
UnwrapDiff(dd) ==
    LET ddmod == ((dd + 180) % 360) - 180
    IN  IF Abs(dd) < 180 THEN dd
        ELSE IF ddmod = -180 /\ dd > 0 THEN 180
        ELSE ddmod

\* np.rad2deg(np.diff(np.unwrap(angles))), length len(head) - 1
AngleDiffDeg(head_unit_vec) ==
    [k \in 1..(Len(head_unit_vec) - 1) |->
        UnwrapDiff(Atan2Deg(head_unit_vec[k + 1]) - Atan2Deg(head_unit_vec[k]))]

\* the look-ahead of the inner loop, range(i, min(i + 30, len(angle_diff)))
MaxLookahead == 30

Min(a, b) == IF a <= b THEN a ELSE b

\* the mutant of TurnFind that compares each step with the threshold by
\* itself instead of the running sum
RECURSIVE TurnFindSingleStep(_, _, _, _, _)
TurnFindSingleStep(j, stop, cumsum, angle_diff_deg, angle_threshold) ==
    IF j >= stop THEN [found |-> FALSE, j |-> j, cumsum |-> cumsum]
    ELSE IF Abs(At(angle_diff_deg, j)) >= angle_threshold
         THEN [found |-> TRUE, j |-> j, cumsum |-> At(angle_diff_deg, j)]
         ELSE TurnFindSingleStep(j + 1, stop, cumsum, angle_diff_deg,
                                 angle_threshold)

\* the inner for loop from position j with the running cumsum: the first j
\* where |cumsum| >= angle_threshold, or found = FALSE (the loop's else)
RECURSIVE TurnFind(_, _, _, _, _)
TurnFind(j, stop, cumsum, angle_diff_deg, angle_threshold) ==
    IF j >= stop THEN [found |-> FALSE, j |-> j, cumsum |-> cumsum]
    ELSE LET c == cumsum + At(angle_diff_deg, j)
         IN  IF Abs(c) >= angle_threshold
             THEN [found |-> TRUE, j |-> j, cumsum |-> c]
             ELSE TurnFind(j + 1, stop, c, angle_diff_deg, angle_threshold)

\* the mutant of TurnSkip that slides the cursor by one after a match
TurnSkipSlidesByOne(i, j, min_frames) == i + 1

\* i = j + min_frames: skip ahead to avoid double-counting
TurnSkip(i, j, min_frames) == j + min_frames

\* one iteration of the while loop
TurnLoopBody(st, times, angle_diff_deg, angle_threshold, min_frames) ==
    LET hit == TurnFind(st.i, Min(st.i + MaxLookahead, Len(angle_diff_deg)), 0,
                        angle_diff_deg, angle_threshold)
    IN  IF ~hit.found THEN [st EXCEPT !.i = st.i + 1]
        ELSE IF st.i >= Len(times) THEN [st EXCEPT !.exc = "IndexError"]
        ELSE [st EXCEPT
                 !.turn_events =
                     Append(@, [idx |-> st.i, time |-> At(times, st.i),
                                angle_change |-> Abs(hit.cumsum),
                                direction |->
                                    IF hit.cumsum > 0 THEN "left" ELSE "right"]),
                 !.i = TurnSkip(st.i, hit.j, min_frames)]

\* the while condition
TurnLoopCond(st, angle_diff_deg, min_frames) ==
    st.exc = "none" /\ st.i < Len(angle_diff_deg) - min_frames

RECURSIVE TurnScan(_, _, _, _, _)
TurnScan(st, times, angle_diff_deg, angle_threshold, min_frames) ==
    IF ~TurnLoopCond(st, angle_diff_deg, min_frames) THEN st
    ELSE TurnScan(TurnLoopBody(st, times, angle_diff_deg, angle_threshold,
                               min_frames),
                  times, angle_diff_deg, angle_threshold, min_frames)

TurnInit == [i |-> 0, turn_events |-> <<>>, exc |-> "none"]

\* detect_turn_events(times, head_unit_vec, angle_threshold, min_frames), for
\* min_frames >= 1 (the callers never pass another value than the default 3)
DetectTurnEvents(times, head_unit_vec, angle_threshold, min_frames) ==
    IF Len(head_unit_vec) < min_frames
    THEN [exc |-> "none", turn_events |-> <<>>]
    ELSE LET st == TurnScan(TurnInit, times, AngleDiffDeg(head_unit_vec),
                            angle_threshold, min_frames)
         IN  [exc |-> st.exc, turn_events |-> st.turn_events]

-----------------------------------------------------------------------------
(* Stimulus windows: compute_ton_toff and derive_windows_from_led.         *)

RECURSIVE MaxOf(_)
MaxOf(s) ==
    IF Len(s) = 1 THEN s[1]
    ELSE LET m == MaxOf(Tail(s)) IN IF s[1] >= m THEN s[1] ELSE m

\* compute_ton_toff with threshold None: is_on = led_values > 0.1 * max,
\* compared in tenths
ComputeTon(led_values) ==
    [k \in 1..Len(led_values) |->
        10 * led_values[k] > (IF Len(led_values) > 0 THEN MaxOf(led_values) ELSE 0)]

WinInit == [in_on |-> FALSE, start |-> None, win_id |-> 0, windows |-> <<>>]

\* the mutant of WinRise that opens a window without counting it
WinRiseKeepsId(st, t) == [st EXCEPT !.in_on = TRUE, !.start = t]

\* ton[i] and not in_on: a window opens at t = eti[i]
WinRise(st, t) == [st EXCEPT !.in_on = TRUE, !.start = t, !.win_id = @ + 1]

\* the mutant of WinFall that closes the window at the last sample that
\* was on, eti[i - 1]
WinFallAtLastOn(st, i, eti) ==
    [st EXCEPT !.windows = Append(@, [start |-> st.start, end |-> At(eti, i - 1),
                                      id |-> st.win_id]),
               !.in_on = FALSE,
               !.start = None]

\* not ton[i] and in_on: the window closes at eti[i]
WinFall(st, i, eti) ==
    [st EXCEPT !.windows = Append(@, [start |-> st.start, end |-> At(eti, i),
                                      id |-> st.win_id]),
               !.in_on = FALSE,
               !.start = None]

\* one iteration of the for loop: the two ifs in sequence
WinLoopBody(st, i, eti, ton) ==
    LET s1 == IF At(ton, i) /\ ~st.in_on THEN WinRise(st, At(eti, i)) ELSE st
    IN  IF ~At(ton, i) /\ s1.in_on THEN WinFall(s1, i, eti) ELSE s1

RECURSIVE WinScan(_, _, _, _)
WinScan(st, i, eti, ton) ==
    IF i >= Len(eti) THEN st
    ELSE WinScan(WinLoopBody(st, i, eti, ton), i + 1, eti, ton)

\* after the loop: a window still open is closed with the final timestamp
WinTail(st, eti) ==
    IF st.in_on /\ st.start # None
    THEN [st EXCEPT !.windows =
             Append(@, [start |-> st.start, end |-> At(eti, Len(eti) - 1),
                        id |-> st.win_id])]
    ELSE st

\* derive_windows_from_led(eti, led1), len(led1) = len(eti) as its caller
\* guarantees
DeriveWindowsFromLed(eti, led1) ==
    WinTail(WinScan(WinInit, 0, eti, ComputeTon(led1)), eti).windows

-----------------------------------------------------------------------------
(* Kinematics: compute_heading_unit_vector, compute_velocity_and_speed and *)
(* compute_speedrunvel, with numpy's shapes, broadcasting and errors.      *)
(*                                                                         *)
(* A 2-D input array is [layout, pts]: its N points and whether it is      *)
(* stored as (2, N) or as (N, 2).  Positions are whole pixels and the      *)
(* model's headings and displacements lie along an axis, so every norm is  *)
(* a whole number and every unit vector has components in -1..1.           *)
(* Velocities are whole multiples of 1/VelScale cm/s.                      *)

\* velocity unit: 1/VelScale cm/s, so that distance / dt is whole for every
\* sampling interval of the model (1, 2, 3 s)
VelScale == 6

\* the points as the code reads them after "if a.shape[0] != 2: a = a.T"
\* (and "if loc.shape[0] == 2"): an (N, 2) array with N = 2 is taken for a
\* (2, N) array, its rows read as the x row and the y row
OrientedPoints(a) ==
    IF a.layout = "Nx2" /\ Len(a.pts) = 2
    THEN <<<<a.pts[1][1], a.pts[2][1]>>, <<a.pts[1][2], a.pts[2][2]>>>>
    ELSE a.pts

\* the common length two arrays broadcast to along their last axis, or None
\* when numpy raises ValueError (operands could not be broadcast together)
BroadcastLen(a, b) ==
    IF a = b THEN a ELSE IF a = 1 THEN b ELSE IF b = 1 THEN a ELSE None

\* element k (1-based) of s broadcast to length n
Pick(s, k, n) == IF Len(s) = n THEN s[k] ELSE s[1]

\* np.sqrt(x**2 + y**2), a whole number in the model
Hypot(x, y) == CHOOSE n \in 0..(Abs(x) + Abs(y)) : n * n = x * x + y * y

\* s[:-1]
ButLast(s) == IF Len(s) = 0 THEN s ELSE SubSeq(s, 1, Len(s) - 1)

\* np.diff(s)
Diff(s) == [k \in 1..(Len(s) - 1) |-> s[k + 1] - s[k]]

\* the mutant of UnitVec that leaves the vector at its length
UnitVecNotNormalised(v) == v

\* head_vec / norms with norms[norms == 0] = 1.0
UnitVec(v) ==
    LET norm == Hypot(v[1], v[2])
        n1 == IF norm = 0 THEN 1 ELSE norm
    IN  <<(IF v[1] < 0 THEN -(Abs(v[1]) \div n1) ELSE v[1] \div n1),
          (IF v[2] < 0 THEN -(Abs(v[2]) \div n1) ELSE v[2] \div n1)>>

\* the mutant of ComputeHeadingUnitVector that takes head_vec = smid - shead,
\* the vector from the head to the mid point
ComputeTailwardUnitVector(shead, smid) ==
    LET sh == OrientedPoints(shead)
        sm == OrientedPoints(smid)
        n == BroadcastLen(Len(sh), Len(sm))
    IN  IF n = None THEN [exc |-> "ValueError", head_unit_vec |-> <<>>]
        ELSE [exc |-> "none",
              head_unit_vec |->
                  [k \in 1..n |->
                      UnitVec(<<Pick(sm, k, n)[1] - Pick(sh, k, n)[1],
                                Pick(sm, k, n)[2] - Pick(sh, k, n)[2]>>)]]

\* compute_heading_unit_vector(shead, smid)
ComputeHeadingUnitVector(shead, smid) ==
    LET sh == OrientedPoints(shead)
        sm == OrientedPoints(smid)
        n == BroadcastLen(Len(sh), Len(sm))
    IN  IF n = None THEN [exc |-> "ValueError", head_unit_vec |-> <<>>]
        ELSE [exc |-> "none",
              head_unit_vec |->
                  [k \in 1..n |->
                      UnitVec(<<Pick(sh, k, n)[1] - Pick(sm, k, n)[1],
                                Pick(sh, k, n)[2] - Pick(sm, k, n)[2]>>)]]

\* the mutant of ComputeVelocityAndSpeed that divides by the time step only
\* where it is positive and leaves the distance as the speed elsewhere
ComputeVelocityAndSpeedUnmasked(xpos, ypos, times) ==
    LET dx == Diff(xpos)
        dy == Diff(ypos)
        dt == Diff(times)
        distance == [k \in 1..Len(dx) |-> Hypot(dx[k], dy[k])]
    IN  IF Len(dx) # Len(dt)
        THEN [exc |-> "IndexError", velocity_vec |-> <<>>, speed |-> <<>>]
        ELSE [exc |-> "none",
              speed |-> [k \in 1..Len(dx) |->
                            IF dt[k] > 0
                            THEN (distance[k] * VelScale) \div dt[k]
                            ELSE distance[k] * VelScale],
              velocity_vec |->
                  [k \in 1..Len(dx) |->
                      IF distance[k] > 0
                      THEN UnitVec(<<dx[k], dy[k]>>)
                      ELSE <<0, 0>>]]

\* compute_velocity_and_speed(xpos, ypos, times): indexing distance (length
\* len(xpos) - 1) with the mask dt > 0 (length len(times) - 1) raises
\* IndexError when the lengths differ
ComputeVelocityAndSpeed(xpos, ypos, times) ==
    LET dx == Diff(xpos)
        dy == Diff(ypos)
        dt == Diff(times)
        distance == [k \in 1..Len(dx) |-> Hypot(dx[k], dy[k])]
    IN  IF Len(dx) # Len(dt)
        THEN [exc |-> "IndexError", velocity_vec |-> <<>>, speed |-> <<>>]
        ELSE [exc |-> "none",
              speed |-> [k \in 1..Len(dx) |->
                            IF dt[k] > 0
                            THEN (distance[k] * VelScale) \div dt[k]
                            ELSE 0],
              velocity_vec |->
                  [k \in 1..Len(dx) |->
                      IF distance[k] > 0
                      THEN UnitVec(<<dx[k], dy[k]>>)
                      ELSE <<0, 0>>]]

\* the mutant of HeadingForInterval that takes head_unit_vec[:, 1:], the
\* heading at the end of each interval
HeadingAtIntervalEnd(head_unit_vec) ==
    IF Len(head_unit_vec) = 0 THEN head_unit_vec ELSE Tail(head_unit_vec)

\* head_unit_vec[:, :-1]: interval k is paired with the heading at its start
HeadingForInterval(head_unit_vec) == ButLast(head_unit_vec)

\* lines 173-176 of compute_speedrunvel, given the results h and v of its
\* two calls: the dot product with the heading, broadcast by numpy
ProjectOnHeading(h, v, times) ==
    LET hv == HeadingForInterval(h.head_unit_vec)
        n == BroadcastLen(Len(v.velocity_vec), Len(hv))
        cos_theta == [k \in 1..n |->
                         Pick(v.velocity_vec, k, n)[1] * Pick(hv, k, n)[1]
                         + Pick(v.velocity_vec, k, n)[2] * Pick(hv, k, n)[2]]
        failed == [exc |-> "none", speedrunvel |-> <<>>, times_out |-> <<>>,
                   head_unit_vec |-> <<>>]
    IN  IF h.exc # "none" THEN [failed EXCEPT !.exc = h.exc]
        ELSE IF v.exc # "none" THEN [failed EXCEPT !.exc = v.exc]
        ELSE IF n = None THEN [failed EXCEPT !.exc = "ValueError"]
        ELSE [exc |-> "none",
              speedrunvel |-> [k \in 1..n |-> Pick(v.speed, k, n) * cos_theta[k]],
              times_out |-> ButLast(times),
              head_unit_vec |-> h.head_unit_vec]

\* compute_speedrunvel(shead, smid, xpos, ypos, times, length_per_pixel)
ComputeSpeedrunvel(shead, smid, xpos, ypos, times, length_per_pixel) ==
    ProjectOnHeading(
        ComputeHeadingUnitVector(shead, smid),
        ComputeVelocityAndSpeed(
            [k \in 1..Len(xpos) |-> xpos[k] * length_per_pixel],
            [k \in 1..Len(ypos) |-> ypos[k] * length_per_pixel],
            times),
        times)

-----------------------------------------------------------------------------
(* analyze_track and the windowed metrics.                                 *)

\* detect_reversals' default min_duration, hard-coded by engineer_data.py's
\* analyze_track
DefaultMinDuration == 3

\* detect_turn_events' default angle_threshold, hard-coded by
\* engineer_data.py's analyze_track
DefaultAngleThreshold == 45

\* detect_turn_events' default min_frames: no caller passes another
DefaultMinFrames == 3

\* the number of samples of s that satisfy val < 0: np.sum(s < 0)
RECURSIVE CountNegative(_)
CountNegative(s) ==
    IF s = <<>> THEN 0
    ELSE (IF Head(s) < 0 THEN 1 ELSE 0) + CountNegative(Tail(s))

\* float(np.mean(s)) if len(s) > 0 else 0.0
MeanOrZero(s) == IF Len(s) > 0 THEN Rat(Sum(s), Len(s)) ELSE Rat(0, 1)

\* what analyze_track returns when one of its calls raised e
AnalyzeTrackRaised(e) ==
    [exc |-> e, ta |-> <<>>, times_sr |-> <<>>, speedrunvel |-> <<>>]

\* lines 341-358 of analyze_track, given the results c, r and t of its calls
\* of compute_speedrunvel, detect_reversals and detect_turn_events
AnalyzeTrackResult(td, track_num, c, r, t) ==
    IF r.exc # "none" THEN AnalyzeTrackRaised(r.exc)
    ELSE IF t.exc # "none" THEN AnalyzeTrackRaised(t.exc)
    ELSE [exc |-> "none",
          ta |-> [track_num |-> track_num,
                  total_duration |->
                      IF Len(td.eti) > 1
                      THEN At(td.eti, Len(td.eti) - 1) - At(td.eti, 0)
                      ELSE 0,
                  reversals |-> r.reversals,
                  turn_events |-> t.turn_events,
                  mean_speed |->
                      MeanOrZero([k \in 1..Len(c.speedrunvel) |->
                                     Abs(c.speedrunvel[k])]),
                  mean_speedrunvel |-> MeanOrZero(c.speedrunvel),
                  fraction_reversing |->
                      IF Len(c.speedrunvel) > 0
                      THEN Rat(CountNegative(c.speedrunvel), Len(c.speedrunvel))
                      ELSE Rat(0, 1)],
          times_sr |-> c.times_out,
          speedrunvel |-> c.speedrunvel]

\* lines 338-339 of analyze_track, given the result c of compute_speedrunvel
AnalyzeTrackEvents(td, track_num, c, min_reversal_duration, angle_threshold) ==
    IF c.exc # "none" THEN AnalyzeTrackRaised(c.exc)
    ELSE AnalyzeTrackResult(
             td, track_num, c,
             DetectReversals(c.times_out, c.speedrunvel, min_reversal_duration),
             DetectTurnEvents(c.times_out, c.head_unit_vec, angle_threshold,
                              DefaultMinFrames))

\* analyze_track(track_data, track_num, min_reversal_duration,
\* angle_threshold) of engineer_dataset_from_h5.py
AnalyzeTrack(td, track_num, min_reversal_duration, angle_threshold) ==
    LET xy == OrientedPoints(td.loc)
    IN  AnalyzeTrackEvents(
            td, track_num,
            ComputeSpeedrunvel(td.shead, td.smid,
                               [k \in 1..Len(xy) |-> xy[k][1]],
                               [k \in 1..Len(xy) |-> xy[k][2]],
                               td.eti, td.length_per_pixel),
            min_reversal_duration, angle_threshold)

\* analyze_track(track_data, track_num) of engineer_data.py: the same
\* computation with detect_reversals(..., min_duration=3.0) and
\* detect_turn_events(..., angle_threshold=45.0) written into it
AnalyzeTrackED(td, track_num) ==
    AnalyzeTrack(td, track_num, DefaultMinDuration, DefaultAngleThreshold)

\* the elements of seq s that satisfy Keep, in order
RECURSIVE SelectIdx(_, _)
SelectIdx(s, keep) ==
    IF s = <<>> THEN <<>>
    ELSE (IF keep[1] THEN <<Head(s)>> ELSE <<>>)
         \o SelectIdx(Tail(s), Tail(keep))

\* the mutant of TrackWindowRow that counts only the part of each reversal
\* that lies inside the window, and the turns strictly inside it
TrackWindowRowClipped(track, times_sr, speedrunvel, w) ==
    LET mask == [k \in 1..Len(times_sr) |->
                    times_sr[k] >= w.start /\ times_sr[k] <= w.end]
        sr_slice == SelectIdx(speedrunvel, mask)
        dur == w.end - w.start
        revs == SelectSeq(track.reversals,
                          LAMBDA r : r.start_time <= w.end /\ r.end_time >= w.start)
        turns == SelectSeq(track.turn_events,
                           LAMBDA t : w.start < t.time /\ t.time < w.end)
    IN  [track_num |-> track.track_num,
         window_id |-> w.id,
         window_start |-> w.start,
         window_end |-> w.end,
         reversals |-> Len(revs),
         reversal_duration |->
             Sum([k \in 1..Len(revs) |->
                     Min(revs[k].end_time, w.end)
                     - (IF revs[k].start_time > w.start THEN revs[k].start_time
                        ELSE w.start)]),
         turns |-> Len(turns),
         turn_rate_per_min |->
             IF dur > 0 THEN Rat(Len(turns) * 60, dur) ELSE Rat(0, 1),
         frac_negative_speedrunvel |->
             IF Len(sr_slice) > 0
             THEN Rat(CountNegative(sr_slice), Len(sr_slice))
             ELSE Rat(0, 1),
         mean_speedrunvel |-> MeanOrZero(sr_slice),
         total_duration |-> dur]

\* one row of compute_track_window_stats, for the window (ws, we, wid)
TrackWindowRow(track, times_sr, speedrunvel, w) ==
    LET mask == [k \in 1..Len(times_sr) |->
                    times_sr[k] >= w.start /\ times_sr[k] <= w.end]
        sr_slice == SelectIdx(speedrunvel, mask)
        dur == w.end - w.start
        revs == SelectSeq(track.reversals,
                          LAMBDA r : r.start_time <= w.end /\ r.end_time >= w.start)
        turns == SelectSeq(track.turn_events,
                           LAMBDA t : w.start <= t.time /\ t.time <= w.end)
    IN  [track_num |-> track.track_num,
         window_id |-> w.id,
         window_start |-> w.start,
         window_end |-> w.end,
         reversals |-> Len(revs),
         reversal_duration |-> Sum([k \in 1..Len(revs) |-> revs[k].duration]),
         turns |-> Len(turns),
         turn_rate_per_min |->
             IF dur > 0 THEN Rat(Len(turns) * 60, dur) ELSE Rat(0, 1),
         frac_negative_speedrunvel |->
             IF Len(sr_slice) > 0
             THEN Rat(CountNegative(sr_slice), Len(sr_slice))
             ELSE Rat(0, 1),
         mean_speedrunvel |-> MeanOrZero(sr_slice),
         total_duration |-> dur]

\* compute_track_window_stats that stops after the first window
ComputeTrackWindowStatsFirstOnly(track, times_sr, speedrunvel, windows) ==
    [exc |-> "none",
     stats |-> [k \in 1..(IF Len(windows) > 0 THEN 1 ELSE 0) |->
                   TrackWindowRow(track, times_sr, speedrunvel, windows[k])]]

\* compute_track_window_stats(track, times_sr, speedrunvel, windows): the
\* mask over times_sr indexes speedrunvel, IndexError when lengths differ
ComputeTrackWindowStats(track, times_sr, speedrunvel, windows) ==
    IF Len(windows) > 0 /\ Len(times_sr) # Len(speedrunvel)
    THEN [exc |-> "IndexError", stats |-> <<>>]
    ELSE [exc |-> "none",
          stats |-> [k \in 1..Len(windows) |->
                        TrackWindowRow(track, times_sr, speedrunvel, windows[k])]]

-----------------------------------------------------------------------------
(* Per-file aggregation: population windows, concurrency and the summary.  *)
(* Statistics are exact rationals; the standard deviation, which is not    *)
(* rational, is left out of the stats records.                             *)

RatOf(n) == Rat(n, 1)

RatAdd(a, b) == Rat(a.num * b.den + b.num * a.den, a.den * b.den)

RatLeq(a, b) == a.num * b.den <= b.num * a.den

RECURSIVE RatSum(_)
RatSum(s) == IF s = <<>> THEN RatOf(0) ELSE RatAdd(Head(s), RatSum(Tail(s)))

\* s with v inserted before the first element greater than v
RECURSIVE RatInsert(_, _)
RatInsert(s, v) ==
    IF s = <<>> THEN <<v>>
    ELSE IF RatLeq(v, Head(s)) THEN <<v>> \o s
    ELSE <<Head(s)>> \o RatInsert(Tail(s), v)

RECURSIVE RatSort(_)
RatSort(s) == IF s = <<>> THEN <<>> ELSE RatInsert(RatSort(Tail(s)), Head(s))

\* the local stats(arr) of aggregate_population_windows and of
\* compute_summary_statistics, over a list of rationals
Stats(arr) ==
    IF arr = <<>>
    THEN [mean |-> RatOf(0), median |-> RatOf(0), min |-> RatOf(0),
          max |-> RatOf(0)]
    ELSE LET n == Len(arr)
             sorted == RatSort(arr)
             total == RatSum(arr)
             mid == RatAdd(sorted[n \div 2], sorted[n \div 2 + 1])
         IN  [mean |-> Rat(total.num, total.den * n),
              median |-> IF n % 2 = 1 THEN sorted[(n + 1) \div 2]
                         ELSE Rat(mid.num, mid.den * 2),
              min |-> sorted[1],
              max |-> sorted[n]]

\* aggregate_population_windows(track_window_stats): the rows grouped by
\* window_id
AggregatePopulationWindows(track_window_stats) ==
    LET rows == track_window_stats
        wids == {rows[k].window_id : k \in 1..Len(rows)}
        lst(wid) == SelectSeq(rows, LAMBDA x : x.window_id = wid)
        col(l, f(_)) == [k \in 1..Len(l) |-> f(l[k])]
    IN  [wid \in wids |->
            [tracks |-> Len(lst(wid)),
             reversals |->
                 Stats(col(lst(wid), LAMBDA x : RatOf(x.reversals))),
             reversal_durations |->
                 Stats(col(lst(wid), LAMBDA x : RatOf(x.reversal_duration))),
             turns |-> Stats(col(lst(wid), LAMBDA x : RatOf(x.turns))),
             turn_rates_per_min |->
                 Stats(col(lst(wid), LAMBDA x : x.turn_rate_per_min)),
             frac_negative_speedrunvel |->
                 Stats(col(lst(wid), LAMBDA x : x.frac_negative_speedrunvel)),
             mean_speedrunvel |->
                 Stats(col(lst(wid), LAMBDA x : x.mean_speedrunvel))]]

\* estimate_concurrency counting only the tracks that overlap the inside of
\* the bin
EstimateConcurrencyStrict(track_times, bin_size) ==
    IF DOMAIN track_times = {} THEN <<>>
    ELSE LET keys == DOMAIN track_times
             t_min == CHOOSE t \in {track_times[n][1] : n \in keys} :
                          \A n \in keys : t <= track_times[n][1]
             t_max == CHOOSE t \in {track_times[n][2] : n \in keys} :
                          \A n \in keys : t >= track_times[n][2]
             nbins == IF t_max + bin_size <= t_min THEN 0
                      ELSE ((t_max + bin_size - t_min - 1) \div bin_size) + 1
             bins == [k \in 1..nbins |-> t_min + (k - 1) * bin_size]
         IN  [i \in 1..(IF nbins > 0 THEN nbins - 1 ELSE 0) |->
                 [bin_start |-> bins[i],
                  bin_end |-> bins[i + 1],
                  active_tracks |->
                      Cardinality({n \in keys :
                          /\ track_times[n][2] > bins[i]
                          /\ track_times[n][1] < bins[i + 1]})]]

\* the bin_size analyze_h5_file passes to estimate_concurrency
BinSize == 10

\* estimate_concurrency(track_analyses, track_times, bin_size): track_times
\* maps a track number to <<t_start, t_end>>; the bin edges are
\* np.arange(t_min, t_max + bin_size, bin_size)
EstimateConcurrency(track_times, bin_size) ==
    IF DOMAIN track_times = {} THEN <<>>
    ELSE LET keys == DOMAIN track_times
             t_min == CHOOSE t \in {track_times[n][1] : n \in keys} :
                          \A n \in keys : t <= track_times[n][1]
             t_max == CHOOSE t \in {track_times[n][2] : n \in keys} :
                          \A n \in keys : t >= track_times[n][2]
             nbins == IF t_max + bin_size <= t_min THEN 0
                      ELSE ((t_max + bin_size - t_min - 1) \div bin_size) + 1
             bins == [k \in 1..nbins |-> t_min + (k - 1) * bin_size]
         IN  [i \in 1..(IF nbins > 0 THEN nbins - 1 ELSE 0) |->
                 [bin_start |-> bins[i],
                  bin_end |-> bins[i + 1],
                  active_tracks |->
                      Cardinality({n \in keys :
                          /\ track_times[n][2] >= bins[i]
                          /\ track_times[n][1] <= bins[i + 1]})]]

\* TrackAnalysis.turn_rate
TurnRate(ta) ==
    IF ta.total_duration > 0
    THEN Rat(Len(ta.turn_events) * 60, ta.total_duration)
    ELSE RatOf(0)

\* TrackAnalysis.to_dict(): the fields plus the derived properties
ToDict(ta) ==
    [track_num |-> ta.track_num,
     total_duration |-> ta.total_duration,
     num_reversals |-> Len(ta.reversals),
     total_reversal_duration |->
         Sum([k \in 1..Len(ta.reversals) |-> ta.reversals[k].duration]),
     reversals |-> ta.reversals,
     num_turns |-> Len(ta.turn_events),
     turn_rate |-> TurnRate(ta),
     turn_events |-> ta.turn_events,
     mean_speed |-> ta.mean_speed,
     mean_speedrunvel |-> ta.mean_speedrunvel,
     fraction_reversing |-> ta.fraction_reversing]

\* the concatenation of the sequences of s
RECURSIVE Flatten(_)
Flatten(s) == IF s = <<>> THEN <<>> ELSE Head(s) \o Flatten(Tail(s))

\* compute_summary_statistics(track_analyses)
ComputeSummaryStatistics(track_analyses) ==
    LET tas == track_analyses
        total_tracks == Len(tas)
        tracks_with_reversals ==
            Cardinality({k \in 1..Len(tas) : Len(tas[k].reversals) > 0})
        all_reversals == Flatten([k \in 1..Len(tas) |-> tas[k].reversals])
    IN  [total_tracks |-> total_tracks,
         tracks_with_reversals |-> tracks_with_reversals,
         percent_tracks_with_reversals |->
             IF total_tracks > 0
             THEN Rat(100 * tracks_with_reversals, total_tracks)
             ELSE RatOf(0),
         total_reversal_events |-> Len(all_reversals),
         reversal_duration_stats |->
             Stats([k \in 1..Len(all_reversals) |->
                       RatOf(all_reversals[k].duration)]),
         turn_rate_stats |->
             Stats([k \in 1..Len(tas) |-> TurnRate(tas[k])]),
         fraction_reversing_stats |->
             Stats([k \in 1..Len(tas) |-> tas[k].fraction_reversing])]

-----------------------------------------------------------------------------
(* Specification SpecRev: detect_reversals applied to any series.          *)

\* signed-velocity samples: reverse, stationary/perpendicular, forward
VelocitySamples == {-1, 0, 1}

\* min_duration: 3.0 is the default, the others come from --min-duration
MinDurations == {0, 2, 3}

RevInputs ==
    UNION {[times : NonDecreasing(n), speedrunvel : [1..n -> VelocitySamples],
            min_duration : MinDurations] : n \in 0..MaxLen}

RevIdle ==
    [pc |-> "idle", times |-> <<>>, speedrunvel |-> <<>>, min_duration |-> 0,
     reversals |-> <<>>, exc |-> "none"]

TurnIdle ==
    [pc |-> "idle", times |-> <<>>, head_unit_vec |-> <<>>, angle_threshold |-> 0,
     min_frames |-> 0, i |-> 0, turn_events |-> <<>>, exc |-> "none"]

WinIdle == [pc |-> "idle", eti |-> <<>>, led1 |-> <<>>, windows |-> <<>>]

H5Idle == [pc |-> "idle"]

KinIdle == [pc |-> "idle"]

RateIdle == [pc |-> "idle"]

InitRev ==
    /\ rate = RateIdle
    /\ turn = TurnIdle
    /\ win = WinIdle
    /\ h5 = H5Idle
    /\ kin = KinIdle
    /\ \E inp \in RevInputs :
        rev = [pc |-> "call", times |-> inp.times, speedrunvel |-> inp.speedrunvel,
               min_duration |-> inp.min_duration, reversals |-> <<>>, exc |-> "none"]

CallDetectReversals ==
    /\ rev.pc = "call"
    /\ LET r == DetectReversals(rev.times, rev.speedrunvel, rev.min_duration)
       IN  rev' = [rev EXCEPT !.pc = "return", !.reversals = r.reversals,
                              !.exc = r.exc]
    /\ UNCHANGED <<turn, win, h5, kin, rate>>

NextRev == CallDetectReversals

SpecRev == InitRev /\ [][NextRev]_vars

-----------------------------------------------------------------------------
(* Specification SpecTurn: detect_turn_events, one action per iteration    *)
(* of its while loop.                                                      *)

\* headings east, north-east, north-west, south-west: steps of 45, 90 and
\* 135 degrees either way, and the -135 -> 135 wrap
HeadingDirs == {<<1, 0>>, <<1, 1>>, <<-1, 1>>, <<-1, -1>>}

\* angle_threshold: 45.0 is the default, 90 comes from --angle-threshold
AngleThresholds == {45, 90}

\* min_frames: 3 is the default
MinFrames == {1, 2, 3}

\* frame times of a track sampled once a second
FrameTimes(n) == [k \in 1..n |-> k - 1]

TurnInputs ==
    UNION {[head_unit_vec : [1..n -> HeadingDirs], times : {FrameTimes(n)},
            angle_threshold : AngleThresholds, min_frames : MinFrames] :
           n \in 0..MaxHeadLen}

InitTurn ==
    /\ rate = RateIdle
    /\ rev = RevIdle
    /\ win = WinIdle
    /\ h5 = H5Idle
    /\ kin = KinIdle
    /\ \E inp \in TurnInputs :
        turn = [pc |-> "call", times |-> inp.times,
                head_unit_vec |-> inp.head_unit_vec,
                angle_threshold |-> inp.angle_threshold,
                min_frames |-> inp.min_frames,
                i |-> 0, turn_events |-> <<>>, exc |-> "none"]

TurnFrameState == [i |-> turn.i, turn_events |-> turn.turn_events, exc |-> turn.exc]

\* if head_unit_vec.shape[1] < min_frames: return []
TurnTooShort ==
    /\ turn.pc = "call"
    /\ Len(turn.head_unit_vec) < turn.min_frames
    /\ turn' = [turn EXCEPT !.pc = "return"]
    /\ UNCHANGED <<rev, win, h5, kin, rate>>

\* angles, unwrap, diff; i = 0
TurnStart ==
    /\ turn.pc = "call"
    /\ Len(turn.head_unit_vec) >= turn.min_frames
    /\ turn' = [turn EXCEPT !.pc = "scan"]
    /\ UNCHANGED <<rev, win, h5, kin, rate>>

\* one iteration of the while loop
TurnIterate ==
    /\ turn.pc = "scan"
    /\ TurnLoopCond(TurnFrameState, AngleDiffDeg(turn.head_unit_vec), turn.min_frames)
    /\ LET st == TurnLoopBody(TurnFrameState, turn.times,
                              AngleDiffDeg(turn.head_unit_vec),
                              turn.angle_threshold, turn.min_frames)
       IN  turn' = [turn EXCEPT !.i = st.i, !.turn_events = st.turn_events,
                                !.exc = st.exc]
    /\ UNCHANGED <<rev, win, h5, kin, rate>>

\* the while condition fails: return turn_events
TurnReturn ==
    /\ turn.pc = "scan"
    /\ ~TurnLoopCond(TurnFrameState, AngleDiffDeg(turn.head_unit_vec), turn.min_frames)
    /\ turn' = [turn EXCEPT !.pc = "return"]
    /\ UNCHANGED <<rev, win, h5, kin, rate>>

NextTurn == TurnTooShort \/ TurnStart \/ TurnIterate \/ TurnReturn

SpecTurn == InitTurn /\ [][NextTurn]_vars

-----------------------------------------------------------------------------
(* Specification SpecWin: derive_windows_from_led applied to any channel.  *)

\* LED intensities: off, a glow at exactly 10% of the full value, full
LedValues == {0, 1, 10}

WinInputs ==
    UNION {[eti : NonDecreasing(n), led1 : [1..n -> LedValues]] : n \in 0..MaxLen}

InitWin ==
    /\ rate = RateIdle
    /\ rev = RevIdle
    /\ turn = TurnIdle
    /\ h5 = H5Idle
    /\ kin = KinIdle
    /\ \E inp \in WinInputs :
        win = [pc |-> "call", eti |-> inp.eti, led1 |-> inp.led1, windows |-> <<>>]

CallDeriveWindows ==
    /\ win.pc = "call"
    /\ win' = [win EXCEPT !.pc = "return",
                          !.windows = DeriveWindowsFromLed(win.eti, win.led1)]
    /\ UNCHANGED <<rev, turn, h5, kin, rate>>

NextWin == CallDeriveWindows

SpecWin == InitWin /\ [][NextWin]_vars

-----------------------------------------------------------------------------
(* The tracks of an experiment file.  A track is drawn from TrackEntries   *)
(* when the loop of analyze_h5_file reaches it.  The animal moves along    *)
(* the x axis, one pixel per sample; its mid point stays at the origin of  *)
(* the head vector, and lengthPerPixel is 1 cm.                            *)

\* the most tracks a file of the model holds
MaxTracks == 2

East == <<1, 0>>

North == <<0, 1>>

Arr(layout, pts) == [layout |-> layout, pts |-> pts]

\* head positions: facing east throughout, or east for the first sample and
\* north from the second on (one 90 degree left turn)
Headings(n, hp) ==
    [k \in 1..n |-> IF hp = "turn" /\ k >= 2 THEN North ELSE East]

\* x positions: forward (along the heading), backward, or backward for the
\* first half of the intervals and forward for the rest
Xs(n, vp) ==
    [k \in 1..n |->
        IF vp = "fwd" THEN k - 1
        ELSE IF vp = "back" THEN -(k - 1)
        ELSE IF k - 1 <= (n - 1) \div 2 THEN -(k - 1)
        ELSE (k - 1) - 2 * ((n - 1) \div 2)]

\* a track whose four arrays hold n samples, dt seconds apart
Track(n, layout, hp, vp, dt) ==
    [kind |-> "track",
     shead |-> Arr(layout, Headings(n, hp)),
     smid |-> Arr(layout, [k \in 1..n |-> <<0, 0>>]),
     loc |-> Arr(layout, [k \in 1..n |-> <<Xs(n, vp)[k], 0>>]),
     eti |-> [k \in 1..n |-> (k - 1) * dt],
     length_per_pixel |-> 1]

\* the track t recorded from t0 seconds after the start of the experiment
Delayed(t, t0) == [t EXCEPT !.eti = [k \in 1..Len(@) |-> @[k] + t0]]

GoodTracks ==
    {Track(n, "2xN", "east", "fwd", 1) : n \in {0, 1}}
    \cup {Track(2, "2xN", "east", "fwd", 1), Track(2, "2xN", "east", "back", 3)}
    \cup {Track(3, "2xN", "east", vp, 3) : vp \in {"fwd", "back", "back_fwd"}}
    \cup {Track(5, "2xN", "east", vp, dt) :
             vp \in {"fwd", "back", "back_fwd"}, dt \in {1, 3}}
    \cup {Track(5, "2xN", "turn", "fwd", 1), Track(5, "2xN", "turn", "back", 3)}
    \cup {Track(3, "Nx2", "turn", "back", 3)}
    \cup {Track(6, "2xN", "east", "fwd", 2),
          Delayed(Track(3, "2xN", "east", "fwd", 1), 10)}
    \cup {Delayed(Track(5, "2xN", "turn", "fwd", 1), 2)}

\* a track one of whose arrays has another length than the rest
Ragged(t, defect) ==
    LET cut(a) == [a EXCEPT !.pts = ButLast(@)]
        first(a, m) == [a EXCEPT !.pts = SubSeq(@, 1, m)]
        more(a) == [a EXCEPT !.pts = @ \o <<@[Len(@)], @[Len(@)]>>]
    IN  CASE defect = "shead_short" -> [t EXCEPT !.shead = cut(@)]
          [] defect = "smid_one" -> [t EXCEPT !.smid = first(@, 1)]
          [] defect = "loc_short" -> [t EXCEPT !.loc = cut(@)]
          [] defect = "eti_short" -> [t EXCEPT !.eti = ButLast(@)]
          [] defect = "head_two" ->
                [t EXCEPT !.shead = first(@, 2), !.smid = first(@, 2)]
          [] defect = "head_long" ->
                [t EXCEPT !.shead = more(@), !.smid = more(@)]

RaggedTracks ==
    {Ragged(Track(4, "2xN", "east", "back", 3), d) :
        d \in {"shead_short", "smid_one", "loc_short", "eti_short",
               "head_two", "head_long"}}
    \cup {Ragged(Track(2, "2xN", "turn", "back", 3), "head_long")}

\* a track group that lacks one of the datasets load_track_from_h5 reads
MissingDataset == [kind |-> "missing"]

TrackEntries == GoodTracks \cup RaggedTracks \cup {MissingDataset}

\* the root eti (has_eti: "eti" in f) and global_quantities/led1Val of a
\* file: no LED channel, or two pulses
NoLed ==
    [has_eti |-> TRUE, eti_root |-> <<0, 2, 4, 6, 8, 10, 12>>, led1 |-> <<>>]

TwoPulses ==
    [has_eti |-> TRUE, eti_root |-> <<0, 2, 4, 6, 8, 10, 12>>,
     led1 |-> <<0, 10, 10, 0, 10, 10, 0>>]

\* len(s) of each of a track's four arrays, as the code reads them
ArrayLengths(td) ==
    {Len(OrientedPoints(td.shead)), Len(OrientedPoints(td.smid)),
     Len(OrientedPoints(td.loc)), Len(td.eti)}

-----------------------------------------------------------------------------
(* Specifications Spec and SpecCli: main and analyze_h5_file of the two    *)
(* scripts, one action per iteration of the loop over the track keys.      *)
(* The file's track keys are track_1, track_2, ... in order, so the track  *)
(* number parsed from key i (0-based) is i + 1.  The name of the file and  *)
(* the timestamp in the results are left out.                              *)

\* the None that load_track_from_h5 returns
NoTrack == [kind |-> "none"]

\* load_track_from_h5(f, track_key): a failed read is caught and gives None
LoadTrackFromH5(entry) == IF entry.kind = "missing" THEN NoTrack ELSE entry

\* the frame of main before the call of analyze_h5_file; run and earlier
\* tell a second run of the program on the same file from the first
H5Start(script, args, file) ==
    [pc |-> "main", script |-> script, args |-> args, file |-> file,
     run |-> 1, earlier |-> <<>>,
     min_reversal_duration |-> None, angle_threshold |-> None,
     windows |-> <<>>, i |-> 0, entries |-> <<>>,
     track_analyses |-> <<>>, track_times |-> <<>>,
     track_windows_stats |-> <<>>, results |-> <<>>, exc |-> "none"]

Raise(e, entry) ==
    h5' = [h5 EXCEPT !.pc = "raised", !.exc = e,
                     !.entries = Append(@, entry)]

\* engineer_dataset_from_h5.py: main calls analyze_h5_file(input_path,
\* args.min_duration, args.angle_threshold), which derives the windows
H5Main ==
    /\ h5.pc = "main"
    /\ h5.script = "engineer_dataset_from_h5"
    /\ LET led1 == h5.file.led1
           eti_root == h5.file.eti_root
           windows == IF /\ h5.file.has_eti
                         /\ Len(led1) = Len(eti_root)
                         /\ Len(led1) > 0
                      THEN DeriveWindowsFromLed(eti_root, led1)
                      ELSE <<>>
       IN  h5' = [h5 EXCEPT !.pc = "loop",
                            !.min_reversal_duration = h5.args.min_duration,
                            !.angle_threshold = h5.args.angle_threshold,
                            !.windows = windows]
    /\ UNCHANGED <<rev, turn, win, kin, rate>>

\* lines 510 and the next iteration: the rows tws are appended
H5Extend(entry, td, tnum, a, tws) ==
    IF tws.exc # "none" THEN Raise(tws.exc, entry)
    ELSE h5' = [h5 EXCEPT
                  !.i = @ + 1,
                  !.entries = Append(@, entry),
                  !.track_analyses = Append(@, a.ta),
                  !.track_times =
                      (tnum :> <<At(td.eti, 0), At(td.eti, Len(td.eti) - 1)>>)
                      @@ @,
                  !.track_windows_stats = @ \o tws.stats]

\* lines 505-509, given the result a of analyze_track
H5Append(entry, td, tnum, a) ==
    IF a.exc # "none" THEN Raise(a.exc, entry)
    ELSE IF Len(td.eti) = 0 THEN Raise("IndexError", entry)
    ELSE H5Extend(entry, td, tnum, a,
                  IF h5.windows # <<>>
                  THEN ComputeTrackWindowStats(a.ta, a.times_sr, a.speedrunvel,
                                               h5.windows)
                  ELSE [exc |-> "none", stats |-> <<>>])

\* H5Analyze with a threshold that grows with the tracks analysed before
H5AnalyzeCarriesOver(entry, td, tnum) ==
    IF td = NoTrack
    THEN h5' = [h5 EXCEPT !.i = @ + 1, !.entries = Append(@, entry)]
    ELSE H5Append(entry, td, tnum,
                  AnalyzeTrack(td, tnum,
                               h5.min_reversal_duration + Len(h5.track_analyses),
                               h5.angle_threshold))

\* lines 497-504, given the result td of load_track_from_h5
H5Analyze(entry, td, tnum) ==
    IF td = NoTrack
    THEN h5' = [h5 EXCEPT !.i = @ + 1, !.entries = Append(@, entry)]
    ELSE H5Append(entry, td, tnum,
                  AnalyzeTrack(td, tnum, h5.min_reversal_duration,
                               h5.angle_threshold))

\* the number of track keys of the file: any number up to MaxTracks, known
\* once a first run has read the file
KeysLeft ==
    IF h5.run = 1 THEN h5.i < MaxTracks ELSE h5.i < Len(h5.earlier.entries)

\* the track group under key i of the file: any entry on the first run, the
\* entry the first run found there on a second run
EntriesAtKey ==
    IF h5.run = 1 THEN TrackEntries ELSE {h5.earlier.entries[h5.i + 1]}

\* one iteration of "for i, tk in enumerate(track_keys)" of
\* engineer_dataset_from_h5.py
H5Track ==
    /\ h5.pc = "loop"
    /\ h5.script = "engineer_dataset_from_h5"
    /\ KeysLeft
    /\ \E entry \in EntriesAtKey :
          H5Analyze(entry, LoadTrackFromH5(entry), h5.i + 1)
    /\ UNCHANGED <<rev, turn, win, kin, rate>>

\* the end of the loop of engineer_dataset_from_h5.py: the results
H5Return ==
    /\ h5.pc = "loop"
    /\ h5.script = "engineer_dataset_from_h5"
    /\ h5.run = 2 => ~KeysLeft
    /\ h5' = [h5 EXCEPT
                !.pc = "done",
                !.results =
                    [tracks |-> [k \in 1..Len(h5.track_analyses) |->
                                    ToDict(h5.track_analyses[k])],
                     windows |-> h5.windows,
                     track_windows |-> h5.track_windows_stats,
                     population_windows |->
                         IF h5.track_windows_stats # <<>>
                         THEN AggregatePopulationWindows(h5.track_windows_stats)
                         ELSE <<>>,
                     concurrency |->
                         IF DOMAIN h5.track_times # {}
                         THEN EstimateConcurrency(h5.track_times, BinSize)
                         ELSE <<>>,
                     summary |->
                         IF h5.track_analyses # <<>>
                         THEN ComputeSummaryStatistics(h5.track_analyses)
                         ELSE <<>>]]
    /\ UNCHANGED <<rev, turn, win, kin, rate>>

\* engineer_data.py: main parses --min-duration and --angle-threshold and
\* calls analyze_h5_file(input_path)
EDMain ==
    /\ h5.pc = "main"
    /\ h5.script = "engineer_data"
    /\ h5' = [h5 EXCEPT !.pc = "loop"]
    /\ UNCHANGED <<rev, turn, win, kin, rate>>

\* lines 531-532 of engineer_data.py, given the result of analyze_track
EDAppend(entry, analysis) ==
    IF analysis.exc # "none" THEN Raise(analysis.exc, entry)
    ELSE h5' = [h5 EXCEPT !.i = @ + 1,
                          !.entries = Append(@, entry),
                          !.track_analyses = Append(@, analysis.ta)]

\* lines 522-531 of engineer_data.py, given the result of load_track_from_h5
EDAnalyze(entry, track_data, track_num) ==
    IF track_data = NoTrack
    THEN h5' = [h5 EXCEPT !.i = @ + 1, !.entries = Append(@, entry)]
    ELSE EDAppend(entry, AnalyzeTrackED(track_data, track_num))

\* one iteration of the loop of engineer_data.py's analyze_h5_file
EDTrack ==
    /\ h5.pc = "loop"
    /\ h5.script = "engineer_data"
    /\ h5.i < MaxTracks
    /\ \E entry \in TrackEntries :
          EDAnalyze(entry, LoadTrackFromH5(entry), h5.i + 1)
    /\ UNCHANGED <<rev, turn, win, kin, rate>>

\* compute_summary_statistics of engineer_data.py: fraction_reversing_stats
\* has no min and no max
EDComputeSummaryStatistics(track_analyses) ==
    [ComputeSummaryStatistics(track_analyses) EXCEPT
        !.fraction_reversing_stats = [mean |-> @.mean, median |-> @.median]]

\* the end of the loop of engineer_data.py: the results
EDReturn ==
    /\ h5.pc = "loop"
    /\ h5.script = "engineer_data"
    /\ h5' = [h5 EXCEPT
                !.pc = "done",
                !.results =
                    [tracks |-> [k \in 1..Len(h5.track_analyses) |->
                                    ToDict(h5.track_analyses[k])],
                     summary |->
                         IF h5.track_analyses # <<>>
                         THEN EDComputeSummaryStatistics(h5.track_analyses)
                         ELSE <<>>]]
    /\ UNCHANGED <<rev, turn, win, kin, rate>>

\* the values given to --min-duration and --angle-threshold
CliArgs == [min_duration : {3, 5}, angle_threshold : {45, 135}]

DefaultArgs ==
    [min_duration |-> DefaultMinDuration,
     angle_threshold |-> DefaultAngleThreshold]

\* engineer_dataset_from_h5.py run without options on a file
Init ==
    /\ rate = RateIdle
    /\ rev = RevIdle
    /\ turn = TurnIdle
    /\ win = WinIdle
    /\ kin = KinIdle
    /\ \E file \in {NoLed, TwoPulses} :
          h5 = H5Start("engineer_dataset_from_h5", DefaultArgs, file)

Next == H5Main \/ H5Track \/ H5Return

Spec == Init /\ [][Next]_vars

\* H5Rerun that starts the second run with the lists of the first
H5RerunKeepsLists ==
    /\ h5.pc = "done"
    /\ h5.run = 1
    /\ h5' = [h5 EXCEPT !.pc = "main", !.run = 2, !.earlier = h5,
                        !.i = 0, !.entries = <<>>, !.results = <<>>]
    /\ UNCHANGED <<rev, turn, win, kin, rate>>

\* the program is run again on the same file with the same options: main
\* starts anew, every list of analyze_h5_file is a fresh local
H5Rerun ==
    /\ h5.pc = "done"
    /\ h5.run = 1
    /\ h5' = [H5Start(h5.script, h5.args, h5.file) EXCEPT
                 !.run = 2, !.earlier = h5]
    /\ UNCHANGED <<rev, turn, win, kin, rate>>

\* engineer_dataset_from_h5.py run twice on a file with an LED channel
InitRerun ==
    /\ rate = RateIdle
    /\ rev = RevIdle
    /\ turn = TurnIdle
    /\ win = WinIdle
    /\ kin = KinIdle
    /\ h5 = H5Start("engineer_dataset_from_h5", DefaultArgs, TwoPulses)

NextRerun == H5Main \/ H5Track \/ H5Return \/ H5Rerun

SpecRerun == InitRerun /\ [][NextRerun]_vars

\* either script run with any of the option values
InitCli ==
    /\ rate = RateIdle
    /\ rev = RevIdle
    /\ turn = TurnIdle
    /\ win = WinIdle
    /\ kin = KinIdle
    /\ \E script \in {"engineer_data", "engineer_dataset_from_h5"},
          args \in CliArgs :
          h5 = H5Start(script, args, NoLed)

NextCli == H5Main \/ H5Track \/ H5Return \/ EDMain \/ EDTrack \/ EDReturn

SpecCli == InitCli /\ [][NextCli]_vars

-----------------------------------------------------------------------------
(* Specification SpecKin: compute_speedrunvel applied to the arrays of one *)
(* track, then detect_reversals applied to its result with the default     *)
(* minimum duration, as analyze_track chains them.  The mid point travels  *)
(* with the centroid and the head lies one pixel from it, along an axis.   *)

\* the most samples a track of SpecKin holds
MaxSamples == 3

West == <<-1, 0>>

\* where the head points at one sample
KinHeadings == {East, North, West}

\* displacement of the centroid over one interval, in pixels
KinSteps == {<<0, 0>>, <<1, 0>>, <<-1, 0>>, <<0, 1>>, <<-2, 0>>}

\* length of one sampling interval, in seconds
KinIntervals == {2, 3}

\* the n + 1 values that start at 0 and grow by the n increments d
Cumulative(d) ==
    [k \in 1..(Len(d) + 1) |-> Sum([j \in 1..(k - 1) |-> d[j]])]

KinInputs ==
    UNION {[head : [1..n -> KinHeadings],
            step : [1..(n - 1) -> KinSteps],
            dt : [1..(n - 1) -> KinIntervals]] : n \in 0..MaxSamples}

\* the arguments of compute_speedrunvel for a track of KinInputs
KinStart(inp) ==
    LET n == Len(inp.head)
        xpos == Cumulative([k \in 1..(n - 1) |-> inp.step[k][1]])
        ypos == Cumulative([k \in 1..(n - 1) |-> inp.step[k][2]])
    IN  [pc |-> "call",
         shead |-> Arr("2xN", [k \in 1..n |-> <<xpos[k] + inp.head[k][1],
                                                ypos[k] + inp.head[k][2]>>]),
         smid |-> Arr("2xN", [k \in 1..n |-> <<xpos[k], ypos[k]>>]),
         xpos |-> IF n = 0 THEN <<>> ELSE xpos,
         ypos |-> IF n = 0 THEN <<>> ELSE ypos,
         times |-> IF n = 0 THEN <<>> ELSE Cumulative(inp.dt),
         length_per_pixel |-> 1,
         speedrunvel |-> <<>>, times_out |-> <<>>, head_unit_vec |-> <<>>,
         reversals |-> <<>>, exc |-> "none"]

InitKin ==
    /\ rate = RateIdle
    /\ rev = RevIdle
    /\ turn = TurnIdle
    /\ win = WinIdle
    /\ h5 = H5Idle
    /\ \E inp \in KinInputs : kin = KinStart(inp)

\* speedrunvel, times_sr, head_unit_vec = compute_speedrunvel(...)
KinComputeSpeedrunvel ==
    /\ kin.pc = "call"
    /\ LET r == ComputeSpeedrunvel(kin.shead, kin.smid, kin.xpos, kin.ypos,
                                   kin.times, kin.length_per_pixel)
       IN  kin' = [kin EXCEPT !.pc = IF r.exc = "none" THEN "detect" ELSE "raised",
                              !.speedrunvel = r.speedrunvel,
                              !.times_out = r.times_out,
                              !.head_unit_vec = r.head_unit_vec,
                              !.exc = r.exc]
    /\ UNCHANGED <<rev, turn, win, h5, rate>>

\* reversals = detect_reversals(times_sr, speedrunvel, min_reversal_duration)
KinDetectReversals ==
    /\ kin.pc = "detect"
    /\ LET r == DetectReversals(kin.times_out, kin.speedrunvel, DefaultMinDuration)
       IN  kin' = [kin EXCEPT !.pc = IF r.exc = "none" THEN "return" ELSE "raised",
                              !.reversals = r.reversals,
                              !.exc = r.exc]
    /\ UNCHANGED <<rev, turn, win, h5, rate>>

NextKin == KinComputeSpeedrunvel \/ KinDetectReversals

SpecKin == InitKin /\ [][NextKin]_vars

-----------------------------------------------------------------------------
(* Specification SpecLeftTurn: detect_turn_events called with its default  *)
(* arguments, as the validator calls it, on headings between +x and +y.    *)

NorthEast == <<1, 1>>

\* headings of the quarter turn from +x to +y
QuarterTurnDirs == {East, NorthEast, North}

LeftTurnInputs ==
    UNION {[head_unit_vec : [1..n -> QuarterTurnDirs], times : {FrameTimes(n)}] :
           n \in 0..MaxHeadLen}

InitLeftTurn ==
    /\ rate = RateIdle
    /\ rev = RevIdle
    /\ win = WinIdle
    /\ h5 = H5Idle
    /\ kin = KinIdle
    /\ \E inp \in LeftTurnInputs :
        turn = [pc |-> "call", times |-> inp.times,
                head_unit_vec |-> inp.head_unit_vec,
                angle_threshold |-> DefaultAngleThreshold,
                min_frames |-> DefaultMinFrames,
                i |-> 0, turn_events |-> <<>>, exc |-> "none"]

SpecLeftTurn == InitLeftTurn /\ [][NextTurn]_vars

-----------------------------------------------------------------------------
(* Specification SpecPulse: derive_windows_from_led applied to a channel   *)
(* sampled once a second from t = 0.                                       *)

\* the most samples of the channel
MaxPulseLen == 7

PulseInputs ==
    UNION {[eti : {FrameTimes(n)}, led1 : [1..n -> LedValues]] :
           n \in 0..MaxPulseLen}

InitPulse ==
    /\ rate = RateIdle
    /\ rev = RevIdle
    /\ turn = TurnIdle
    /\ h5 = H5Idle
    /\ kin = KinIdle
    /\ \E inp \in PulseInputs :
        win = [pc |-> "call", eti |-> inp.eti, led1 |-> inp.led1, windows |-> <<>>]

SpecPulse == InitPulse /\ [][NextWin]_vars

-----------------------------------------------------------------------------
(* Specification SpecDegenerate: the same two calls on tracks with         *)
(* degenerate samples: the head on the mid point, the centroid at rest,    *)
(* timestamps that repeat or run backward.                                 *)

\* head_vec of a sample: one pixel toward +x, or head == mid point
DegenerateHeadings == {East, <<0, 0>>}

\* displacement over one interval: 2 pixels backward, or none
DegenerateSteps == {<<-2, 0>>, <<0, 0>>}

\* time step of one interval: negative, zero, 3 s
DegenerateIntervals == {-1, 0, 3}

DegenerateInputs ==
    UNION {[head : [1..n -> DegenerateHeadings],
            step : [1..(n - 1) -> DegenerateSteps],
            dt : [1..(n - 1) -> DegenerateIntervals]] : n \in 0..(MaxSamples + 1)}

InitDegenerate ==
    /\ rate = RateIdle
    /\ rev = RevIdle
    /\ turn = TurnIdle
    /\ win = WinIdle
    /\ h5 = H5Idle
    /\ \E inp \in DegenerateInputs : kin = KinStart(inp)

SpecDegenerate == InitDegenerate /\ [][NextKin]_vars

-----------------------------------------------------------------------------
(* rate_from_time_corrected (validators/rate_from_time_corrected.py) and   *)
(* its specification SpecRate.  Times are whole seconds, so that events    *)
(* fall on bin edges as well as between them.                              *)

CeilDiv(a, b) == (a + b - 1) \div b

\* np.arange(0, stop, step) for step > 0
Arange(stop, step) ==
    IF stop <= 0 THEN <<>> ELSE [k \in 1..CeilDiv(stop, step) |-> (k - 1) * step]

\* the mutant of InBin whose bins are all closed on the right
InBinClosed(t, i, bin_edges) == bin_edges[i] <= t /\ t <= bin_edges[i + 1]

\* np.histogram's bin i (1-based): half-open [edge, next edge), except the
\* last bin, which includes its right edge
InBin(t, i, bin_edges) ==
    /\ bin_edges[i] <= t
    /\ \/ t < bin_edges[i + 1]
       \/ i = Len(bin_edges) - 1 /\ t = bin_edges[i + 1]

\* counts, _ = np.histogram(event_times, bins=bin_edges)
Histogram(event_times, bin_edges) ==
    [i \in 1..(Len(bin_edges) - 1) |->
        Cardinality({k \in 1..Len(event_times) : InBin(event_times[k], i, bin_edges)})]

\* rate_from_time_corrected(event_times, total_duration, bin_size,
\* normalize_by_time)
RateFromTimeCorrected(event_times, total_duration, bin_size, normalize_by_time) ==
    LET bin_edges == Arange(total_duration + bin_size, bin_size)
        n_bins == Len(bin_edges) - 1
        counts == Histogram(event_times, bin_edges)
    IN  IF n_bins < 1
        THEN [rate |-> <<>>, time_bins |-> <<>>, counts |-> <<>>]
        ELSE [rate |-> [i \in 1..n_bins |->
                           IF normalize_by_time THEN Rat(counts[i], bin_size)
                           ELSE Rat(counts[i], 1)],
              time_bins |-> [i \in 1..n_bins |-> Rat(2 * bin_edges[i] + bin_size, 2)],
              counts |-> counts]

\* the most events of a call
MaxEvents == 2

\* the longest observation, in seconds
MaxDuration == 4

\* bin_size
RateBinSizes == {1, 2, 3}

\* event times: before the observation, inside it, up to the last bin edge
\* and past it
EventTimes == -1..(MaxDuration + 3)

RateInputs ==
    UNION {[event_times : [1..n -> EventTimes],
            total_duration : 0..MaxDuration,
            bin_size : RateBinSizes,
            normalize_by_time : BOOLEAN] : n \in 0..MaxEvents}

InitRate ==
    /\ rev = RevIdle
    /\ turn = TurnIdle
    /\ win = WinIdle
    /\ h5 = H5Idle
    /\ kin = KinIdle
    /\ \E inp \in RateInputs :
        rate = [pc |-> "call", event_times |-> inp.event_times,
                total_duration |-> inp.total_duration, bin_size |-> inp.bin_size,
                normalize_by_time |-> inp.normalize_by_time,
                rate |-> <<>>, time_bins |-> <<>>, counts |-> <<>>]

CallRateFromTimeCorrected ==
    /\ rate.pc = "call"
    /\ LET r == RateFromTimeCorrected(rate.event_times, rate.total_duration,
                                      rate.bin_size, rate.normalize_by_time)
       IN  rate' = [rate EXCEPT !.pc = "return", !.rate = r.rate,
                                !.time_bins = r.time_bins, !.counts = r.counts]
    /\ UNCHANGED <<rev, turn, win, h5, kin>>

NextRate == CallRateFromTimeCorrected

SpecRate == InitRate /\ [][NextRate]_vars

-----------------------------------------------------------------------------
(* Specification SpecTurnScan: the scan of detect_turn_events on the       *)
(* series of SpecTurn and on series longer than the look-ahead of the      *)
(* inner loop, in which the heading turns from +x to +y in two steps that  *)
(* may lie further apart than the look-ahead.                              *)

\* samples of a long series: its angle_diff is 3 longer than the look-ahead
LongLen == MaxLookahead + 4

\* a samples facing east, then b facing north-east, then north
SlowQuarterTurn(a, b) ==
    [k \in 1..LongLen |->
        IF k <= a THEN East ELSE IF k <= a + b THEN NorthEast ELSE North]

LongTurnInputs ==
    [head_unit_vec : {SlowQuarterTurn(a, b) :
                         a \in 1..(LongLen - 1), b \in 0..(LongLen - 1)},
     times : {FrameTimes(LongLen)},
     angle_threshold : AngleThresholds,
     min_frames : {DefaultMinFrames}]

InitTurnScan ==
    /\ rate = RateIdle
    /\ rev = RevIdle
    /\ win = WinIdle
    /\ h5 = H5Idle
    /\ kin = KinIdle
    /\ \E inp \in TurnInputs \cup LongTurnInputs :
        turn = [pc |-> "call", times |-> inp.times,
                head_unit_vec |-> inp.head_unit_vec,
                angle_threshold |-> inp.angle_threshold,
                min_frames |-> inp.min_frames,
                i |-> 0, turn_events |-> <<>>, exc |-> "none"]

SpecTurnScan == InitTurnScan /\ [][NextTurn]_vars

-----------------------------------------------------------------------------
(* Specification SpecTurnFrames: the scan of detect_turn_events for every  *)
(* min_frames >= 0 and thresholds down to 0.  A scan that does not         *)
(* terminate appends events without end; the model follows it up to        *)
(* MaxTurnEvents events.                                                   *)

\* the events after which the model stops following a scan
MaxTurnEvents == 3

\* min_frames, any integer >= 0 up to the default
AnyMinFrames == 0..DefaultMinFrames

\* angle_threshold
AnyAngleThresholds == {0, 45, 90}

TurnFramesInputs ==
    UNION {[head_unit_vec : [1..n -> HeadingDirs], times : {FrameTimes(n)},
            angle_threshold : AnyAngleThresholds, min_frames : AnyMinFrames] :
           n \in 0..MaxLen}

InitTurnFrames ==
    /\ rate = RateIdle
    /\ rev = RevIdle
    /\ win = WinIdle
    /\ h5 = H5Idle
    /\ kin = KinIdle
    /\ \E inp \in TurnFramesInputs :
        turn = [pc |-> "call", times |-> inp.times,
                head_unit_vec |-> inp.head_unit_vec,
                angle_threshold |-> inp.angle_threshold,
                min_frames |-> inp.min_frames,
                i |-> 0, turn_events |-> <<>>, exc |-> "none"]

\* one iteration of the while loop, followed while the list is short
TurnIterateBounded ==
    /\ Len(turn.turn_events) < MaxTurnEvents
    /\ TurnIterate

NextTurnFrames == TurnTooShort \/ TurnStart \/ TurnIterateBounded \/ TurnReturn

SpecTurnFrames == InitTurnFrames /\ [][NextTurnFrames]_vars

-----------------------------------------------------------------------------
(* Specification SpecLayout: the first two calls of analyze_track on a     *)
(* track of two samples or more whose shead, smid and loc arrays are all   *)
(* stored as (2, N) or all as (N, 2).                                      *)

LayoutHeadings == {East, North, West}

LayoutSteps == {<<1, 0>>, <<0, 1>>, <<-2, 0>>}

\* both readings of a two-point array of vectors keep every vector on an
\* axis, so that every norm of the model is a whole number
OnAxesEitherWay(h) ==
    Len(h) = 2 => h[1][1] * h[2][1] = 0 /\ h[1][2] * h[2][2] = 0

LayoutInputs ==
    UNION {{inp \in [layout : {"2xN", "Nx2"},
                     head : [1..n -> LayoutHeadings],
                     step : [1..(n - 1) -> LayoutSteps],
                     dt : [1..(n - 1) -> KinIntervals]] :
               OnAxesEitherWay(inp.head)} : n \in 2..MaxSamples}

\* lines 324-337 of analyze_track for a track of LayoutInputs: loc is the
\* mid point, and xpos and ypos are taken from it by its shape
LayoutStart(inp) ==
    LET n == Len(inp.head)
        x == Cumulative([k \in 1..(n - 1) |-> inp.step[k][1]])
        y == Cumulative([k \in 1..(n - 1) |-> inp.step[k][2]])
        loc == Arr(inp.layout, [k \in 1..n |-> <<x[k], y[k]>>])
        xy == OrientedPoints(loc)
    IN  [pc |-> "call",
         shead |-> Arr(inp.layout, [k \in 1..n |-> <<x[k] + inp.head[k][1],
                                                     y[k] + inp.head[k][2]>>]),
         smid |-> loc,
         loc |-> loc,
         xpos |-> [k \in 1..Len(xy) |-> xy[k][1]],
         ypos |-> [k \in 1..Len(xy) |-> xy[k][2]],
         times |-> Cumulative(inp.dt),
         length_per_pixel |-> 1,
         speedrunvel |-> <<>>, times_out |-> <<>>, head_unit_vec |-> <<>>,
         reversals |-> <<>>, exc |-> "none"]

InitLayout ==
    /\ rate = RateIdle
    /\ rev = RevIdle
    /\ turn = TurnIdle
    /\ win = WinIdle
    /\ h5 = H5Idle
    /\ \E inp \in LayoutInputs : kin = LayoutStart(inp)

SpecLayout == InitLayout /\ [][NextKin]_vars

-----------------------------------------------------------------------------
(* Properties of detect_reversals (SpecRev).                               *)

RevReturned == rev.pc = "return"

RevN == Len(rev.speedrunvel)

\* [a, b] is a maximal run of consecutive samples with SignedVelocity < 0
IsMaxNegativeRun(a, b) ==
    /\ a <= b
    /\ \A k \in a..b : At(rev.speedrunvel, k) < 0
    /\ a = 0 \/ At(rev.speedrunvel, a - 1) >= 0
    /\ b = RevN - 1 \/ At(rev.speedrunvel, b + 1) >= 0

\* the run's measured duration: up to the first non-negative sample after
\* it, or up to the final timestamp when the run reaches the end
RunDuration(a, b) ==
    IF b < RevN - 1
    THEN At(rev.times, b + 1) - At(rev.times, a)
    ELSE At(rev.times, RevN - 1) - At(rev.times, a)

MaxNegativeRuns ==
    {ab \in (0..(RevN - 1)) \X (0..(RevN - 1)) : IsMaxNegativeRun(ab[1], ab[2])}

EmittedRanges ==
    {<<rev.reversals[k].start_idx, rev.reversals[k].end_idx>> :
        k \in 1..Len(rev.reversals)}

\* C1: every Reversal emitted by detect_reversals has duration >=
\* min_duration, and a maximal negative run whose measured duration is below
\* min_duration is the range of no emitted Reversal.
C1_MinDuration ==
    RevReturned =>
        /\ \A k \in 1..Len(rev.reversals) :
               rev.reversals[k].duration >= rev.min_duration
        /\ \A ab \in MaxNegativeRuns :
               RunDuration(ab[1], ab[2]) < rev.min_duration =>
                   ab \notin EmittedRanges

\* C1 witness: a call that emitted a Reversal and dropped a shorter run
C1_Witness ==
    /\ RevReturned
    /\ Len(rev.reversals) >= 1
    /\ \E ab \in MaxNegativeRuns : RunDuration(ab[1], ab[2]) < rev.min_duration

\* C2: detect_reversals emits exactly one Reversal for each maximal run of
\* samples < 0 whose measured duration is >= min_duration, and nothing else;
\* [start_idx, end_idx] is exactly that run (a sample equal to 0 ends it).
C2_ExactlyTheLongRuns ==
    RevReturned =>
        /\ rev.exc = "none"
        /\ EmittedRanges =
               {ab \in MaxNegativeRuns :
                    RunDuration(ab[1], ab[2]) >= rev.min_duration}
        /\ Cardinality(EmittedRanges) = Len(rev.reversals)

\* C2 witness: a Reversal closed by a sample of exactly 0, next to a run that
\* was too short to be emitted
C2_Witness ==
    /\ RevReturned
    /\ \E k \in 1..Len(rev.reversals) :
           /\ rev.reversals[k].end_idx < RevN - 1
           /\ At(rev.speedrunvel, rev.reversals[k].end_idx + 1) = 0
    /\ Cardinality(MaxNegativeRuns) > Len(rev.reversals)

\* C3: the Reversals of one track are in increasing time order and their
\* index ranges are pairwise disjoint: end_idx[k] < start_idx[k+1].
C3_OrderedDisjoint ==
    RevReturned =>
        \A k \in 1..(Len(rev.reversals) - 1) :
            /\ rev.reversals[k].start_idx <= rev.reversals[k].end_idx
            /\ rev.reversals[k].end_idx < rev.reversals[k + 1].start_idx
            /\ rev.reversals[k].start_time <= rev.reversals[k + 1].start_time
            /\ rev.reversals[k].end_time <= rev.reversals[k + 1].start_time

\* C3 witness: a series with two Reversals
C3_Witness == RevReturned /\ Len(rev.reversals) >= 2

\* C4: every emitted Reversal has duration = end_time - start_time, whether
\* it was closed in mid-series or by the end of the series.
C4_DurationIsEndMinusStart ==
    RevReturned =>
        \A k \in 1..Len(rev.reversals) :
            rev.reversals[k].duration =
                rev.reversals[k].end_time - rev.reversals[k].start_time


-----------------------------------------------------------------------------
(* Properties of detect_turn_events (SpecTurn).                            *)

\* C5: consecutive TurnEvents satisfy event[k+1].idx >= event[k].idx +
\* min_frames, at every point of the scan.
C5_TurnSpacing ==
    \A k \in 1..(Len(turn.turn_events) - 1) :
        turn.turn_events[k + 1].idx >= turn.turn_events[k].idx + turn.min_frames

\* C5 witness: a finished scan with min_frames >= 2 that emitted two events
C5_Witness ==
    /\ turn.pc = "return"
    /\ turn.min_frames >= 2
    /\ Len(turn.turn_events) >= 2

-----------------------------------------------------------------------------
(* Properties of derive_windows_from_led (SpecWin).                        *)

\* C6: on a non-decreasing timestamp series the windows have ids 1, 2, ..., K
\* in list order, each has start <= end, and the end of window k is <= the
\* start of window k+1.
C6_WindowsOrdered ==
    win.pc = "return" =>
        \A k \in 1..Len(win.windows) :
            /\ win.windows[k].id = k
            /\ win.windows[k].start <= win.windows[k].end
            /\ k < Len(win.windows) =>
                   win.windows[k].end <= win.windows[k + 1].start

\* C6 witness: a channel with two windows, the second still on at the end
C6_Witness ==
    /\ win.pc = "return"
    /\ Len(win.windows) = 2
    /\ At(ComputeTon(win.led1), Len(win.led1) - 1)


-----------------------------------------------------------------------------
(* Properties of analyze_h5_file and main (Spec, SpecCli).                 *)

\* the tracks read so far (1-based, also their track numbers) whose arrays
\* satisfy P
TracksWhere(P(_)) ==
    {k \in 1..Len(h5.entries) :
        h5.entries[k].kind = "track" /\ P(h5.entries[k])}

\* track k left nothing in the analysis: it did not raise, and it has no
\* TrackAnalysis, no concurrency interval and no TrackWindowStats row
Excluded(k) ==
    /\ ~(h5.pc = "raised" /\ k = Len(h5.entries))
    /\ \A j \in 1..Len(h5.track_analyses) : h5.track_analyses[j].track_num # k
    /\ k \notin DOMAIN h5.track_times
    /\ \A j \in 1..Len(h5.track_windows_stats) :
          h5.track_windows_stats[j].track_num # k

\* the track has n samples in each of its arrays, n < 2
FewerThanTwoSamples(td) == \E n \in {0, 1} : ArrayLengths(td) = {n}

\* C7: a track with fewer than 2 samples is skipped: it gets no
\* TrackAnalysis, no TrackWindowStats row and no concurrency interval, it is
\* not counted in total_tracks, and the analysis goes on to the other tracks.
C7_ShortTrackSkipped ==
    /\ \A k \in TracksWhere(FewerThanTwoSamples) : Excluded(k)
    /\ (h5.pc = "done" /\ h5.results.summary # <<>>) =>
          h5.results.summary.total_tracks
              <= Len(h5.entries) - Cardinality(TracksWhere(FewerThanTwoSamples))

\* C8: no problem with one track's input raises out of analyze_h5_file: the
\* analysis never ends in an exception.
C8_NeverRaises == h5.pc # "raised"

\* the track's arrays have different lengths
MismatchedLengths(td) == Cardinality(ArrayLengths(td)) > 1

\* C9: a track whose arrays (shead, smid, loc, eti) have different lengths
\* is rejected and skipped: nothing is computed from it and it does not
\* abort the analysis.
C9_MismatchRejected == \A k \in TracksWhere(MismatchedLengths) : Excluded(k)

\* C10: in the results of either script every Reversal has duration >= the
\* --min-duration given and every TurnEvent has angle_change >= the
\* --angle-threshold given.
C10_CliThresholdsApplied ==
    h5.pc = "done" =>
        \A k \in 1..Len(h5.results.tracks) :
            LET t == h5.results.tracks[k]
            IN  /\ \A j \in 1..Len(t.reversals) :
                      t.reversals[j].duration >= h5.args.min_duration
                /\ \A j \in 1..Len(t.turn_events) :
                      t.turn_events[j].angle_change >= h5.args.angle_threshold


\* the rows of track_windows_stats for track number t and window id w
RowsOf(t, w) ==
    {j \in 1..Len(h5.track_windows_stats) :
        /\ h5.track_windows_stats[j].track_num = t
        /\ h5.track_windows_stats[j].window_id = w}

AnalysedTrackNums ==
    {h5.track_analyses[k].track_num : k \in 1..Len(h5.track_analyses)}

WindowIds == {h5.windows[k].id : k \in 1..Len(h5.windows)}

\* C11: while the analysis runs and when it returns, track_windows_stats
\* holds exactly one row for every (analysed track, window id) pair and no
\* other row; without windows it holds no row.
C11_OneRowPerTrackWindow ==
    h5.pc \in {"loop", "done"} =>
        /\ \A t \in AnalysedTrackNums, w \in WindowIds :
              Cardinality(RowsOf(t, w)) = 1
        /\ \A j \in 1..Len(h5.track_windows_stats) :
              /\ h5.track_windows_stats[j].track_num \in AnalysedTrackNums
              /\ h5.track_windows_stats[j].window_id \in WindowIds
        /\ h5.windows = <<>> => h5.track_windows_stats = <<>>
        /\ h5.pc = "done" => h5.results.track_windows = h5.track_windows_stats

\* C11 witness: a returned analysis of two tracks under two windows
C11_Witness ==
    /\ h5.pc = "done"
    /\ Len(h5.windows) = 2
    /\ Len(h5.track_analyses) = 2
    /\ Len(h5.results.track_windows) = 4


\* the timestamps of the signed-velocity samples of track k of the file
TimesSrOf(k) ==
    AnalyzeTrack(h5.entries[k], k, h5.min_reversal_duration,
                 h5.angle_threshold).times_sr

\* the analysed tracks with at least one signed-velocity sample in window w
TracksWithDataIn(w) ==
    {k \in TracksWhere(LAMBDA td : TRUE) :
        \E j \in 1..Len(TimesSrOf(k)) :
            w.start <= TimesSrOf(k)[j] /\ TimesSrOf(k)[j] <= w.end}

\* C12: for each window id the 'tracks' count of the population statistics
\* is the number of tracks with at least one signed-velocity sample inside
\* the window.
C12_PopulationOverTracksWithData ==
    h5.pc = "done" =>
        \A k \in 1..Len(h5.windows) :
            h5.windows[k].id \in DOMAIN h5.results.population_windows =>
                h5.results.population_windows[h5.windows[k].id].tracks
                    = Cardinality(TracksWithDataIn(h5.windows[k]))


\* the tracks of the file that were analysed (all that could be loaded)
AnalysedTracks == TracksWhere(LAMBDA td : TRUE)

FirstTime(k) == h5.entries[k].eti[1]

LastTime(k) == h5.entries[k].eti[Len(h5.entries[k].eti)]

\* C13: bin i of the concurrency estimate starts at the minimum first_time
\* plus (i - 1) bin widths, is one bin width long, and its active_tracks is
\* the number of analysed tracks with last_time >= bin_start and
\* first_time <= bin_end.
C13_ConcurrencyCountsOverlaps ==
    h5.pc = "done" =>
        \A i \in 1..Len(h5.results.concurrency) :
            LET bin == h5.results.concurrency[i]
            IN  /\ \E k \in AnalysedTracks :
                      /\ \A j \in AnalysedTracks : FirstTime(k) <= FirstTime(j)
                      /\ bin.bin_start = FirstTime(k) + (i - 1) * BinSize
                /\ bin.bin_end = bin.bin_start + BinSize
                /\ bin.active_tracks =
                       Cardinality({k \in AnalysedTracks :
                           /\ LastTime(k) >= bin.bin_start
                           /\ FirstTime(k) <= bin.bin_end})

\* C13 witness: two bins that both count two tracks, one of which ends
\* exactly where the second bin starts
C13_Witness ==
    /\ h5.pc = "done"
    /\ Len(h5.results.concurrency) = 2
    /\ \E k \in AnalysedTracks : LastTime(k) = h5.results.concurrency[2].bin_start
    /\ h5.results.concurrency[1].active_tracks = 2
    /\ h5.results.concurrency[2].active_tracks = 2


\* the analysis of track k of the file in an experiment that holds no other
\* track
Alone(k) ==
    AnalyzeTrack(h5.entries[k], k, h5.min_reversal_duration, h5.angle_threshold)

\* the permutations of 1..n
Perms(n) == {p \in [1..n -> 1..n] : \A a, b \in 1..n : p[a] = p[b] => a = b}

\* the TrackWindowStats rows when the tracks are processed in the order p
RowsInOrder(p) ==
    Flatten([k \in 1..Len(h5.track_analyses) |->
                SelectSeq(h5.track_windows_stats,
                          LAMBDA x : x.track_num
                                       = h5.track_analyses[p[k]].track_num)])

-----------------------------------------------------------------------------
(* Properties of repeated runs (SpecRerun).                                *)

\* the Reversal lists, TurnEvent lists and windows in the results res
EventLists(res) ==
    [reversals |-> [k \in 1..Len(res.tracks) |-> res.tracks[k].reversals],
     turn_events |-> [k \in 1..Len(res.tracks) |-> res.tracks[k].turn_events],
     track_nums |-> [k \in 1..Len(res.tracks) |-> res.tracks[k].track_num],
     windows |-> res.windows]

-----------------------------------------------------------------------------
(* Properties of compute_speedrunvel and the reversals found in its        *)
(* result (SpecKin).                                                       *)

KinN == Len(kin.times)

\* head - mid at sample k (1-based), as the track's arrays hold it
KinHeadVec(k) ==
    <<kin.shead.pts[k][1] - kin.smid.pts[k][1],
      kin.shead.pts[k][2] - kin.smid.pts[k][2]>>

\* displacement of the centroid from sample k to sample k + 1, in cm
KinDisplacement(k) ==
    <<(kin.xpos[k + 1] - kin.xpos[k]) * kin.length_per_pixel,
      (kin.ypos[k + 1] - kin.ypos[k]) * kin.length_per_pixel>>

\* Scenario B: the head points along +x throughout and the centroid moves
\* backward at 1 cm/s over every interval of a recording that lasts 4 s
ReverseCrawl ==
    /\ KinN >= 2
    /\ \A k \in 1..KinN : KinHeadVec(k) = East
    /\ \A k \in 1..(KinN - 1) :
        KinDisplacement(k) = <<-(kin.times[k + 1] - kin.times[k]), 0>>
    /\ kin.times[KinN] - kin.times[1] = 4

\* C16: a track facing +x whose centroid moves backward at 1 cm/s for the
\* 4 s of its recording yields exactly one Reversal, of duration 4 s and
\* mean speed 1.0 cm/s
C16_ReverseCrawlIsOneReversal ==
    (kin.pc = "return" /\ ReverseCrawl) =>
        /\ Len(kin.reversals) = 1
        /\ kin.reversals[1].duration = 4
        /\ kin.reversals[1].mean_speed = Rat(VelScale, 1)

\* compute_speedrunvel has returned
KinComputed == kin.pc \in {"detect", "return"}

\* length of interval k, in seconds
KinDt(k) == kin.times[k + 1] - kin.times[k]

\* the displacement over interval k projected on the head vector of sample
\* j (of length 1), per second, in units of 1/VelScale cm/s
SignedSpeedAlong(k, j) ==
    LET d == KinDisplacement(k)
        h == KinHeadVec(j)
    IN  ((d[1] * h[1] + d[2] * h[2]) * VelScale) \div KinDt(k)

\* C19: for N >= 2 samples the signed-velocity series and its timestamps
\* have length N - 1; value i is the displacement from sample i to sample
\* i + 1 projected on the heading of sample i, and carries time[i]
C19_IntervalStartPairing ==
    (KinComputed /\ KinN >= 2) =>
        /\ Len(kin.speedrunvel) = KinN - 1
        /\ Len(kin.times_out) = KinN - 1
        /\ \A i \in 1..(KinN - 1) :
            /\ kin.speedrunvel[i] = SignedSpeedAlong(i, i)
            /\ kin.times_out[i] = kin.times[i]

\* C19 witness: a computed series whose first interval starts facing east
\* and ends facing north, the centroid moving east: the value is positive,
\* where the heading of the interval's end would give zero
C19_Witness ==
    /\ KinComputed
    /\ KinN = 3
    /\ KinHeadVec(1) = East
    /\ KinHeadVec(2) = North
    /\ KinDisplacement(1) = <<1, 0>>
    /\ kin.speedrunvel[1] > 0
    /\ SignedSpeedAlong(1, 2) = 0

\* the displacement over interval k along the head vector of sample k:
\* positive along the heading, negative against it, zero across it or at rest
KinAlong(k) ==
    KinDisplacement(k)[1] * KinHeadVec(k)[1] + KinDisplacement(k)[2] * KinHeadVec(k)[2]

Sign(x) == IF x > 0 THEN 1 ELSE IF x < 0 THEN -1 ELSE 0

\* the centroid moves along the heading over every interval
ForwardThroughout == \A k \in 1..(KinN - 1) : KinAlong(k) > 0

-----------------------------------------------------------------------------
(* Properties of detect_turn_events with its default arguments             *)
(* (SpecLeftTurn).                                                         *)

\* Scenario D: the heading is (1,0) at first and (0,1) at last, and rotates
\* between them in one step of 90 degrees or in two consecutive steps of 45
LeftQuarterTurn ==
    LET h == turn.head_unit_vec
        n == Len(h)
    IN  /\ n >= 2
        /\ h[1] = East
        /\ h[n] = North
        /\ \E a \in 1..(n - 1) :
            /\ \A k \in 1..a : h[k] = East
            /\ \A k \in (a + 2)..n : h[k] = North
            /\ h[a + 1] \in {NorthEast, North}

\* C17: for a heading that rotates from (1,0) to (0,1), at once or over
\* consecutive steps, in a track long enough for the scan to start
\* (min_frames + 2 samples), detect_turn_events with the default threshold
\* returns exactly one TurnEvent, to the left, with angle_change 90
C17_LeftTurnIsOneEventOf90 ==
    (turn.pc = "return" /\ LeftQuarterTurn
        /\ Len(turn.head_unit_vec) >= DefaultMinFrames + 2) =>
        /\ Len(turn.turn_events) = 1
        /\ turn.turn_events[1].direction = "left"
        /\ turn.turn_events[1].angle_change = 90

-----------------------------------------------------------------------------
(* Properties of derive_windows_from_led on a uniformly sampled channel    *)
(* (SpecPulse).                                                            *)

\* Scenario E: the channel has samples at t = 2 and t = 5, is above the
\* threshold exactly at the samples with 2 <= t <= 5 and zero elsewhere
PulseFrom2To5 ==
    /\ \E k \in 1..Len(win.eti) : win.eti[k] = 2
    /\ \E k \in 1..Len(win.eti) : win.eti[k] = 5
    /\ \A k \in 1..Len(win.eti) :
        IF 2 <= win.eti[k] /\ win.eti[k] <= 5
        THEN ComputeTon(win.led1)[k]
        ELSE win.led1[k] = 0

\* C18: a channel that is zero except above threshold at the samples with
\* 2 <= t <= 5 gives exactly one window, with id 1, start 2 and end 5
C18_PulseWindowIs2To5 ==
    (win.pc = "return" /\ PulseFrom2To5) =>
        win.windows = <<[start |-> 2, end |-> 5, id |-> 1]>>

-----------------------------------------------------------------------------
(* Properties of the signed velocity on degenerate samples                 *)
(* (SpecDegenerate).                                                       *)

\* Speed of the track's intervals, as compute_velocity_and_speed returns it
KinSpeed ==
    ComputeVelocityAndSpeed(
        [k \in 1..Len(kin.xpos) |-> kin.xpos[k] * kin.length_per_pixel],
        [k \in 1..Len(kin.ypos) |-> kin.ypos[k] * kin.length_per_pixel],
        kin.times).speed

\* C21: |SignedVelocity[i]| <= Speed[i] for every interval of every track,
\* also where the head lies on the mid point, the centroid is at rest or
\* the time step is not positive
C21_SignedVelocityBoundedBySpeed ==
    KinComputed =>
        /\ Len(kin.speedrunvel) = Len(KinSpeed)
        /\ \A i \in 1..Len(kin.speedrunvel) :
            Abs(kin.speedrunvel[i]) <= KinSpeed[i]

\* C21 witness: a computed track of four samples that holds an interval of
\* full backward speed, one with the head on the mid point, one with a
\* time step of zero and the centroid moving
C21_Witness ==
    /\ KinComputed
    /\ KinN = 4
    /\ \E i \in 1..3 : kin.speedrunvel[i] < 0 /\ -kin.speedrunvel[i] = KinSpeed[i]
    /\ \E i \in 1..3 : KinHeadVec(i) = <<0, 0>> /\ KinSpeed[i] > 0
    /\ \E i \in 1..3 : KinDt(i) = 0 /\ KinDisplacement(i) # <<0, 0>>

-----------------------------------------------------------------------------
(* Properties of rate_from_time_corrected (SpecRate).                      *)

\* the number of events with lo <= time <= hi
EventsBetween(lo, hi) ==
    Cardinality({k \in 1..Len(rate.event_times) :
                    lo <= rate.event_times[k] /\ rate.event_times[k] <= hi})

\* the right edge of the last bin: the first multiple of bin_size that is
\* >= total_duration
LastEdge == CeilDiv(rate.total_duration, rate.bin_size) * rate.bin_size

\* with total_duration > 0 the bins are the consecutive intervals of width
\* bin_size from 0 to LastEdge, and each holds at least the events at or
\* after its left edge and before its right edge
BinsHoldTheirEvents ==
    /\ Len(rate.counts) = CeilDiv(rate.total_duration, rate.bin_size)
    /\ \A i \in 1..Len(rate.counts) :
        rate.counts[i] >= EventsBetween((i - 1) * rate.bin_size, i * rate.bin_size - 1)

\* C22 as amended: for total_duration > 0 and bin_size > 0 the bins do not
\* overlap and reach from 0 to the first multiple of bin_size at or after
\* total_duration; every event with time in that range is counted in
\* exactly one bin, so the counts sum to the number of events in it
C22_EachEventCountedOnce ==
    (rate.pc = "return" /\ rate.total_duration > 0) =>
        /\ BinsHoldTheirEvents
        /\ Sum(rate.counts) = EventsBetween(0, LastEdge)

\* C22 as stated: the counts sum to the number of events with time in
\* [0, total_duration]
C22_CountsSumToEventsInDuration ==
    (rate.pc = "return" /\ rate.total_duration > 0) =>
        /\ BinsHoldTheirEvents
        /\ Sum(rate.counts) = EventsBetween(0, rate.total_duration)

\* C22 witness: a returned call with two bins or more and two events at
\* the same time, on an edge between two bins, both counted once
C22_Witness ==
    /\ rate.pc = "return"
    /\ rate.total_duration > 0
    /\ Len(rate.counts) >= 2
    /\ Len(rate.event_times) = 2
    /\ rate.event_times[1] = rate.bin_size
    /\ rate.event_times[2] = rate.bin_size
    /\ rate.counts[2] = 2
    /\ Sum(rate.counts) = 2

-----------------------------------------------------------------------------
(* Properties of the run that is open at the end of the series (SpecRev).  *)

\* C23: when the series ends inside a negative run that began at sample a,
\* the run is emitted if and only if times[last] - times[a] >= min_duration;
\* it is then the last Reversal, with end_idx the last index of the series
\* and end_time the final timestamp; otherwise no Reversal starts at a
C23_OpenRunClosedWithFinalTimestamp ==
    RevReturned =>
        \A a \in 0..(RevN - 1) :
            IsMaxNegativeRun(a, RevN - 1) =>
                LET last == RevN - 1
                    emitted == {k \in 1..Len(rev.reversals) :
                                   rev.reversals[k].start_idx = a}
                IN  IF At(rev.times, last) - At(rev.times, a) >= rev.min_duration
                    THEN /\ emitted = {Len(rev.reversals)}
                         /\ rev.reversals[Len(rev.reversals)].end_idx = last
                         /\ rev.reversals[Len(rev.reversals)].end_time =
                                At(rev.times, last)
                         /\ rev.reversals[Len(rev.reversals)].start_time =
                                At(rev.times, a)
                    ELSE emitted = {}

\* C23 witness: a returned call with min_duration > 0 whose series ends in
\* a negative run that began after the first sample and was emitted
C23_Witness ==
    /\ RevReturned
    /\ rev.min_duration > 0
    /\ \E a \in 1..(RevN - 1) :
        /\ IsMaxNegativeRun(a, RevN - 1)
        /\ Len(rev.reversals) >= 1
        /\ rev.reversals[Len(rev.reversals)].start_idx = a
        /\ rev.reversals[Len(rev.reversals)].end_idx = RevN - 1

-----------------------------------------------------------------------------
(* Properties of the Reversals of a track (SpecKin).                       *)

\* the mean of |SignedVelocity| over the samples a..b (0-based, inclusive)
MeanAbsOver(a, b) ==
    Rat(Sum([k \in 1..(b - a + 1) |-> Abs(At(kin.speedrunvel, a + k - 1))]),
        b - a + 1)

\* C24: the mean_speed of every emitted Reversal is the mean of the absolute
\* signed velocities over its samples start_idx..end_idx, all of which are
\* negative
C24_MeanSpeedIsMeanAbs ==
    kin.pc = "return" =>
        \A k \in 1..Len(kin.reversals) :
            LET r == kin.reversals[k]
            IN  /\ r.start_idx <= r.end_idx
                /\ \A j \in r.start_idx..r.end_idx : At(kin.speedrunvel, j) < 0
                /\ r.mean_speed = MeanAbsOver(r.start_idx, r.end_idx)

\* C24 witness: a Reversal over two samples of different speed
C24_Witness ==
    /\ kin.pc = "return"
    /\ Len(kin.reversals) = 1
    /\ kin.reversals[1].start_idx = 0
    /\ kin.reversals[1].end_idx = 1
    /\ kin.speedrunvel[1] # kin.speedrunvel[2]

-----------------------------------------------------------------------------
(* Properties of the scan of detect_turn_events (SpecTurnScan).            *)

AngleDiffs == AngleDiffDeg(turn.head_unit_vec)

\* d[i] + ... + d[j] (0-based, inclusive)
PartialSum(d, i, j) == Sum(SubSeq(d, i + 1, j + 1))

\* the positions j in [i, min(i + 30, len(d))) where the sum of the angle
\* differences d from i reaches the threshold
Hits(d, i) ==
    {j \in i..(Min(i + MaxLookahead, Len(d)) - 1) :
        Abs(PartialSum(d, i, j)) >= turn.angle_threshold}

SmallestHit(d, i) == CHOOSE j \in Hits(d, i) : \A k \in Hits(d, i) : j <= k

\* the TurnEvent of cursor i and sum c
EventAt(i, c) ==
    [idx |-> i, time |-> At(turn.times, i), angle_change |-> Abs(c),
     direction |-> IF c > 0 THEN "left" ELSE "right"]

\* one iteration of the scan at cursor turn.i over the angle differences d
GreedyStepOver(d) ==
    IF Hits(d, turn.i) = {}
    THEN /\ turn'.i = turn.i + 1
         /\ turn'.turn_events = turn.turn_events
    ELSE /\ turn'.turn_events =
                Append(turn.turn_events,
                       EventAt(turn.i, PartialSum(d, turn.i, SmallestHit(d, turn.i))))
         /\ turn'.i = SmallestHit(d, turn.i) + turn.min_frames

GreedyStep ==
    (turn.pc = "scan" /\ turn'.pc = "scan") => GreedyStepOver(AngleDiffs)

\* some cursor position of the angle differences d has a hit
SomeHit(d) == \E i \in 0..(Len(d) - 1) : Hits(d, i) # {}

\* every TurnEvent has angle_change >= angle_threshold, and a finished scan
\* of a series with no cursor position whose sums reach the threshold has
\* no events
EventsReachThreshold ==
    /\ \A k \in 1..Len(turn.turn_events) :
        turn.turn_events[k].angle_change >= turn.angle_threshold
    /\ (turn.pc = "return" /\ turn.turn_events # <<>>) => SomeHit(AngleDiffs)

\* C25: the scan is a greedy leftmost match: at cursor i it emits a
\* TurnEvent (idx i, time[i]) exactly when some j within the look-ahead has
\* |angle_diff[i] + ... + angle_diff[j]| >= angle_threshold; for the
\* smallest such j the event carries |that sum| and its sign as direction
\* and the cursor moves to j + min_frames; otherwise the cursor moves to
\* i + 1.  Every TurnEvent has angle_change >= angle_threshold
C25_GreedyLeftmostMatch == [][GreedyStep]_vars /\ []EventsReachThreshold

\* C25 witness: a finished scan that has emitted an event whose first step
\* alone is below the threshold: the sum over several steps reached it
C25_Witness ==
    /\ turn.pc = "return"
    /\ Len(turn.turn_events) >= 1
    /\ Abs(At(AngleDiffs, turn.turn_events[1].idx)) < turn.angle_threshold
    /\ At(AngleDiffs, turn.turn_events[1].idx) # 0

-----------------------------------------------------------------------------
(* Properties of the scan for every min_frames >= 0 (SpecTurnFrames).      *)

\* an iteration of the scan loop moves the cursor forward
CursorAdvances == (turn.pc = "scan" /\ turn'.pc = "scan") => turn'.i > turn.i

\* every emitted idx is an index of the timestamp series
IdxInRange ==
    \A k \in 1..Len(turn.turn_events) :
        0 <= turn.turn_events[k].idx /\ turn.turn_events[k].idx < Len(turn.times)

\* C26: for every angle_threshold and every min_frames >= 0 the cursor
\* strictly increases on each iteration of the scan loop (so the scan ends
\* when i >= len(angle_diff) - min_frames), and every emitted idx is a
\* valid index of the timestamp series
C26_ScanTerminates == [][CursorAdvances]_vars /\ []IdxInRange

-----------------------------------------------------------------------------
(* Properties of the windows and the runs of the channel (SpecWin).        *)

WinN == Len(win.eti)

\* sample k (0-based) is above the default threshold, 10% of the maximum
AboveThreshold(k) == 10 * At(win.led1, k) > MaxOf(win.led1)

\* [a, b] is a maximal run of consecutive samples above the threshold
IsMaxOnRun(a, b) ==
    /\ a <= b
    /\ \A k \in a..b : AboveThreshold(k)
    /\ a = 0 \/ ~AboveThreshold(a - 1)
    /\ b = WinN - 1 \/ ~AboveThreshold(b + 1)

MaxOnRuns == {ab \in (0..(WinN - 1)) \X (0..(WinN - 1)) : IsMaxOnRun(ab[1], ab[2])}

\* the position of the run in the series: the runs that start at or before it
RunRank(ab) == Cardinality({cd \in MaxOnRuns : cd[1] <= ab[1]})

\* the window the run [a, b] is to give: from the timestamp of its first
\* sample to the timestamp of the first sample after it, or to the final
\* timestamp when the run reaches the end of the series
WindowOfRun(ab) ==
    [start |-> At(win.eti, ab[1]),
     end |-> IF ab[2] < WinN - 1 THEN At(win.eti, ab[2] + 1)
             ELSE At(win.eti, WinN - 1),
     id |-> RunRank(ab)]

\* C27: derive_windows_from_led returns exactly one window per maximal run
\* of samples above the threshold (10% of the channel maximum), in order:
\* it starts at the timestamp of the run's first sample and ends at the
\* timestamp of the first sample below the threshold after the run, or at
\* the final timestamp if the run reaches the end; no sample above the
\* threshold, no window
C27_OneWindowPerRun ==
    win.pc = "return" =>
        /\ Len(win.windows) = Cardinality(MaxOnRuns)
        /\ \A ab \in MaxOnRuns : win.windows[RunRank(ab)] = WindowOfRun(ab)

\* C27 witness: two windows on distinct timestamps, the first closed by a
\* sample below the threshold, the second open at the end of the series
C27_Witness ==
    /\ win.pc = "return"
    /\ Len(win.windows) = 2
    /\ win.windows[1].start < win.windows[1].end
    /\ win.windows[1].end < win.windows[2].start
    /\ AboveThreshold(WinN - 1)

-----------------------------------------------------------------------------
(* Properties of the rows of compute_track_window_stats (Spec).            *)

\* the analysis of the track a row belongs to
AnalysisOfRow(row) ==
    h5.track_analyses[CHOOSE k \in 1..Len(h5.track_analyses) :
                          h5.track_analyses[k].track_num = row.track_num]

\* the Reversals of ta that overlap the row's window
OverlappingReversals(ta, row) ==
    {i \in 1..Len(ta.reversals) :
        /\ ta.reversals[i].start_time <= row.window_end
        /\ ta.reversals[i].end_time >= row.window_start}

\* the TurnEvents of ta inside the row's window, both ends included
TurnsInWindow(ta, row) ==
    {i \in 1..Len(ta.turn_events) :
        /\ row.window_start <= ta.turn_events[i].time
        /\ ta.turn_events[i].time <= row.window_end}

RowCountsEvents(ta, row) ==
    /\ row.reversals = Cardinality(OverlappingReversals(ta, row))
    /\ row.reversal_duration =
           Sum([i \in 1..Len(ta.reversals) |->
                   IF i \in OverlappingReversals(ta, row)
                   THEN ta.reversals[i].duration ELSE 0])
    /\ row.turns = Cardinality(TurnsInWindow(ta, row))

\* C28: in every (track, window) row the reversal count is the number of
\* the track's Reversals with start_time <= window end and end_time >=
\* window start, the reversal duration is the sum of their full durations,
\* and the turn count is the number of TurnEvents with window start <= time
\* <= window end
C28_WindowRowCounts ==
    h5.pc = "done" =>
        \A j \in 1..Len(h5.track_windows_stats) :
            RowCountsEvents(AnalysisOfRow(h5.track_windows_stats[j]),
                            h5.track_windows_stats[j])

\* C28 witness: a finished analysis with a row whose Reversal is longer
\* than the window it overlaps, a row of the same track without a Reversal,
\* and a row with a TurnEvent at the very start of the window
C28_Witness ==
    /\ h5.pc = "done"
    /\ \E j \in 1..Len(h5.track_windows_stats) :
        /\ h5.track_windows_stats[j].reversals = 1
        /\ h5.track_windows_stats[j].reversal_duration >
               h5.track_windows_stats[j].total_duration
        /\ \E i \in 1..Len(h5.track_windows_stats) :
            /\ h5.track_windows_stats[i].track_num =
                   h5.track_windows_stats[j].track_num
            /\ h5.track_windows_stats[i].reversals = 0
    /\ \E j \in 1..Len(h5.track_windows_stats) :
        /\ h5.track_windows_stats[j].turns = 1
        /\ AnalysisOfRow(h5.track_windows_stats[j]).turn_events[1].time =
               h5.track_windows_stats[j].window_start

-----------------------------------------------------------------------------
(* Properties of the array layouts (SpecLayout).                           *)

\* what compute_speedrunvel returns for the track's data stored as (2, N)
SameDataAs2xN ==
    ComputeSpeedrunvel(Arr("2xN", kin.shead.pts), Arr("2xN", kin.smid.pts),
                       [k \in 1..Len(kin.loc.pts) |-> kin.loc.pts[k][1]],
                       [k \in 1..Len(kin.loc.pts) |-> kin.loc.pts[k][2]],
                       kin.times, kin.length_per_pixel)

LayoutAgreesWith(ref) ==
    /\ kin.exc = ref.exc
    /\ kin.head_unit_vec = ref.head_unit_vec
    /\ kin.speedrunvel = ref.speedrunvel

\* C29: for every track of N >= 2 samples, the heading vectors and the
\* signed velocities computed from arrays stored as (N, 2) are those
\* computed from the same data stored as (2, N)
C29_LayoutAutoDetected ==
    (kin.pc \in {"detect", "return", "raised"} /\ kin.shead.layout = "Nx2")
        => LayoutAgreesWith(SameDataAs2xN)

-----------------------------------------------------------------------------
(* Properties of degenerate samples (SpecDegenerate).                      *)

\* interval k (1-based) has a time step that is not positive, no
\* displacement, or a head that lies on the mid point
DegenerateSample(k) ==
    \/ KinDt(k) <= 0
    \/ KinDisplacement(k) = <<0, 0>>
    \/ KinHeadVec(k) = <<0, 0>>

\* samples a..b (0-based) of speedrunvel are negative and a starts the run
BackwardRunFrom(a, b) ==
    /\ a <= b
    /\ \A j \in a..b : At(kin.speedrunvel, j) < 0
    /\ a > 0 => At(kin.speedrunvel, a - 1) >= 0

\* the backward run a..(k - 1) is closed at sample k (0-based): one Reversal
\* over a..(k - 1) if times[k] - times[a] reaches min_duration, none that
\* starts at a otherwise
ClosedAt(a, k) ==
    LET dur == At(kin.times_out, k) - At(kin.times_out, a)
        emitted == {j \in 1..Len(kin.reversals) : kin.reversals[j].start_idx = a}
    IN  IF dur >= DefaultMinDuration
        THEN /\ Cardinality(emitted) = 1
             /\ \A j \in emitted :
                 /\ kin.reversals[j].end_idx = k - 1
                 /\ kin.reversals[j].end_time = At(kin.times_out, k - 1)
                 /\ kin.reversals[j].duration = dur
        ELSE emitted = {}

\* C30: a sample whose time step is not positive, whose displacement is
\* zero or whose head lies on the mid point has SignedVelocity 0; no
\* Reversal contains it, and the backward run before it is closed at it and
\* tested against min_duration on its own
C30_DegenerateSampleClosesReversal ==
    /\ KinComputed =>
        \A k \in 1..Len(kin.speedrunvel) :
            DegenerateSample(k) => kin.speedrunvel[k] = 0
    /\ kin.pc = "return" =>
        \A k \in 0..(Len(kin.speedrunvel) - 1) :
            DegenerateSample(k + 1) =>
                /\ \A j \in 1..Len(kin.reversals) :
                    ~(kin.reversals[j].start_idx <= k
                      /\ k <= kin.reversals[j].end_idx)
                /\ \A a \in 0..(k - 1) :
                    BackwardRunFrom(a, k - 1) => ClosedAt(a, k)

\* C30 witness: four samples, backward over the first interval and the
\* third, degenerate over the second: the first run is emitted as a Reversal
\* closed at the degenerate sample, the second is dropped
C30_Witness ==
    /\ kin.pc = "return"
    /\ Len(kin.speedrunvel) = 3
    /\ kin.speedrunvel[1] < 0
    /\ DegenerateSample(2)
    /\ kin.speedrunvel[3] < 0
    /\ Len(kin.reversals) = 1
    /\ kin.reversals[1].start_idx = 0
    /\ kin.reversals[1].end_idx = 0
    /\ kin.reversals[1].duration = KinDt(1)

=============================================================================
